---- MODULE Spec2Model ----
(***************************************************************************)
(* Model of the chat message Boxer (go/chat/boxer.go): BoxMessage seals a  *)
(* plaintext into an envelope (MessageBoxed), the relay server attaches a  *)
(* server header and may alter or replay the envelope, and UnboxMessage    *)
(* opens and verifies it against the collaborators (key finder, user       *)
(* loader, replay guard).                                                  *)
(*                                                                         *)
(* Cryptography is symbolic: a ciphertext is a term naming the plaintext,  *)
(* key and nonce it was sealed with; a hash is a term naming the hashed    *)
(* bytes; a signature is a term naming the signed bytes and the signer.    *)
(* Nonces drawn by seal are fresh (a 24-byte random nonce never repeats).  *)
(***************************************************************************)
EXTENDS Integers, Sequences, FiniteSets, TLC

\* ------------------------------------------------------------------ bounds
MaxGen    == 2   \* key generations are 1..MaxGen
MaxKeys   == 2   \* longest key list the key finder returns
MaxMsgID  == 2   \* server message ids are 1..MaxMsgID
MaxConv   == 2   \* conversation ids are 1..MaxConv
MaxTime   == 2   \* the server ctime is MaxTime, revocation times are 0..MaxTime+1
MaxPrev   == 1   \* longest prev-pointer list of a plaintext
MaxBox    == 1   \* number of BoxMessage calls that reach seal
MaxUnbox  == 2   \* number of UnboxMessage calls

\* ------------------------------------------------------- program constants
NaclDHNonceSize == 24
ZeroKey == 0
PublicKeyGeneration == 1
SealVersion == 1
SigVersion == 2

NULL == [null |-> TRUE]

\* publicCryptKey is a zero key used for public chat messages.
publicCryptKey == [KeyGeneration |-> PublicKeyGeneration, Key |-> ZeroKey]

\* ------------------------------------------------------------- value sets
Generations == 1..MaxGen
MsgIDs      == 1..MaxMsgID
ConvIDs     == 1..MaxConv
CTimes      == {MaxTime}
TlfNames    == {"", "alice,bob"}
CanonNames  == {"", "alice,bob#canon"}
Bodies      == {"hello", "bye"}
KIDs        == {"kid1"}
MerkleRoots == {NULL, [null |-> FALSE, seqno |-> 7]}

\* a key of generation g has key bytes g; generation 1 may also be the zero key
CryptKeyVals == {[KeyGeneration |-> g, Key |-> g] : g \in Generations} \cup {publicCryptKey}

DistinctGens(ks) == \A i, j \in 1..Len(ks) : i # j => ks[i].KeyGeneration # ks[j].KeyGeneration

KeyLists == {ks \in UNION {[1..n -> CryptKeyVals] : n \in 0..MaxKeys} : DistinctGens(ks)}

\* ------------------------------------------------------------------ codec
marshal(v) == [mp |-> v]

CanUnmarshal(data) == "mp" \in DOMAIN data

unmarshal(data) == data.mp

\* ----------------------------------------------------------------- hasher
hashSha256V1(data) == [sha256 |-> data]

hashV1(data) == hashSha256V1(data)

\* ----------------------------------------------------------------- sealer
EmptyBytes == [kind |-> "empty"]

IsEmptyBytes(E) == E.kind = "empty"

\* secretbox.Seal: the ciphertext names plaintext, key and nonce; auth is the
\* Poly1305 tag, which any change of a byte invalidates
secretboxSeal(s, nonce, key) == [kind |-> "box", pt |-> s, k |-> key, n |-> nonce, auth |-> TRUE]

secretboxOpen(E, nonce, key) ==
    IF E.kind = "box" /\ E.auth /\ E.k = key /\ E.n = nonce
    THEN [ok |-> TRUE, plain |-> E.pt]
    ELSE [ok |-> FALSE, plain |-> NULL]

seal(data, key, rnd) ==
    LET s      == marshal(data)
        nonce  == [len |-> NaclDHNonceSize, id |-> rnd]
        sealed == secretboxSeal(s, nonce.id, key.Key)
    IN  [V |-> SealVersion, E |-> sealed, N |-> nonce]

open(data, key) ==
    IF data.N.len # NaclDHNonceSize
    THEN [err |-> "DecryptBadNonceError", plain |-> NULL]
    ELSE LET r == secretboxOpen(data.E, data.N.id, key.Key)
         IN  IF ~r.ok
             THEN [err |-> "DecryptOpenError", plain |-> NULL]
             ELSE [err |-> "", plain |-> r.plain]

\* ------------------------------------------------------- signer / verifier
SignV2(msg, kp) == [Version |-> SigVersion, Sig |-> [signed |-> msg, by |-> kp.kid], Kid |-> kp.kid]

sign(msg, kp) ==
    IF ~kp.canSign
    THEN [err |-> "SignError", sigInfo |-> NULL]
    ELSE LET sig == SignV2(msg, kp)
         IN  [err |-> "", sigInfo |-> [V |-> sig.Version, S |-> sig.Sig, K |-> sig.Kid]]

signMarshal(data, kp) == sign(marshal(data), kp)

verify(data, si) == si.S.signed = data /\ si.S.by = si.K

\* ------------------------------------------------------------ Box pipeline
BoxingError(msg, permanent) == [set |-> TRUE, msg |-> msg, perm |-> permanent]

NoBoxingError == [set |-> FALSE, msg |-> "", perm |-> FALSE]

\* the variant that takes a missing saved root for a failure
latestMerkleRootSaved(merkle) ==
    IF merkle.client = "none"
    THEN [err |-> "no MerkleClient available", root |-> NULL]
    ELSE IF merkle.client = "error"
    THEN [err |-> "LastRootInfo failed", root |-> NULL]
    ELSE IF merkle.root = NULL
    THEN [err |-> "no merkle root available", root |-> NULL]
    ELSE [err |-> "", root |-> merkle.root]

\* latestMerkleRoot: merkle is the state of the Merkle client
latestMerkleRoot(merkle) ==
    IF merkle.client = "none"
    THEN [err |-> "no MerkleClient available", root |-> NULL]
    ELSE IF merkle.client = "error"
    THEN [err |-> "LastRootInfo failed", root |-> NULL]
    ELSE [err |-> "", root |-> merkle.root]

\* The range loop of BoxMessage.  The loop variable `key` is one variable for
\* the whole loop and recentKey = &key points at it, so *recentKey reads the
\* element of the current iteration.  st.set: recentKey # nil; st.key: the
\* value of the loop variable.
RECURSIVE RecentKeyLoop(_, _, _)
RecentKeyLoop(keys, i, st) ==
    IF i > Len(keys) THEN st
    ELSE LET key       == keys[i]
             recentKey == key
             take      == ~st.set \/ key.KeyGeneration > recentKey.KeyGeneration
         IN  RecentKeyLoop(keys, i + 1, [set |-> st.set \/ take, key |-> key])

\* the variant that ranges over the key list for a public TLF too
RecentKeyListed(msg, cres) ==
    RecentKeyLoop(cres.CryptKeys, 1, [set |-> FALSE, key |-> publicCryptKey])

\* the choice of recentKey in BoxMessage
RecentKey(msg, cres) ==
    IF msg.ClientHeader.TlfPublic
    THEN [set |-> TRUE, key |-> publicCryptKey]
    ELSE RecentKeyLoop(cres.CryptKeys, 1, [set |-> FALSE, key |-> publicCryptKey])

\* the variant that hashes the body before it is sealed
boxMessageWithKeysPlain(msg, key, signingKeyPair, rnd) ==
    LET body          == [MessageBody |-> msg.MessageBody]
        plaintextBody == [version |-> 1, V1 |-> body]
        encryptedBody == seal(plaintextBody, key, rnd)
        bodyHash      == hashV1(marshal(plaintextBody))
        header        == [Conv            |-> msg.ClientHeader.Conv,
                          TlfName         |-> msg.ClientHeader.TlfName,
                          TlfPublic       |-> msg.ClientHeader.TlfPublic,
                          MessageType     |-> msg.ClientHeader.MessageType,
                          Prev            |-> msg.ClientHeader.Prev,
                          Sender          |-> msg.ClientHeader.Sender,
                          SenderDevice    |-> msg.ClientHeader.SenderDevice,
                          BodyHash        |-> bodyHash,
                          OutboxInfo      |-> msg.ClientHeader.OutboxInfo,
                          OutboxID        |-> msg.ClientHeader.OutboxID,
                          HeaderSignature |-> NULL]
        sig             == signMarshal(header, signingKeyPair)
        signed          == [header EXCEPT !.HeaderSignature = sig.sigInfo]
        plaintextHeader == [version |-> 1, V1 |-> signed]
        encryptedHeader == seal(plaintextHeader, key, rnd + 1)
    IN  IF sig.err # ""
        THEN [err |-> sig.err, boxed |-> NULL]
        ELSE [err |-> "",
              boxed |-> [ServerHeader     |-> NULL,
                         ClientHeader     |-> msg.ClientHeader,
                         BodyCiphertext   |-> encryptedBody,
                         HeaderCiphertext |-> encryptedHeader,
                         KeyGeneration    |-> key.KeyGeneration]]

boxMessageWithKeys(msg, key, signingKeyPair, rnd) ==
    LET body          == [MessageBody |-> msg.MessageBody]
        plaintextBody == [version |-> 1, V1 |-> body]
        encryptedBody == seal(plaintextBody, key, rnd)
        bodyHash      == hashV1(encryptedBody.E)
        header        == [Conv            |-> msg.ClientHeader.Conv,
                          TlfName         |-> msg.ClientHeader.TlfName,
                          TlfPublic       |-> msg.ClientHeader.TlfPublic,
                          MessageType     |-> msg.ClientHeader.MessageType,
                          Prev            |-> msg.ClientHeader.Prev,
                          Sender          |-> msg.ClientHeader.Sender,
                          SenderDevice    |-> msg.ClientHeader.SenderDevice,
                          BodyHash        |-> bodyHash,
                          OutboxInfo      |-> msg.ClientHeader.OutboxInfo,
                          OutboxID        |-> msg.ClientHeader.OutboxID,
                          HeaderSignature |-> NULL]
        sig             == signMarshal(header, signingKeyPair)
        signed          == [header EXCEPT !.HeaderSignature = sig.sigInfo]
        plaintextHeader == [version |-> 1, V1 |-> signed]
        encryptedHeader == seal(plaintextHeader, key, rnd + 1)
    IN  IF sig.err # ""
        THEN [err |-> sig.err, boxed |-> NULL]
        ELSE [err |-> "",
              boxed |-> [ServerHeader     |-> NULL,
                         ClientHeader     |-> msg.ClientHeader,
                         BodyCiphertext   |-> encryptedBody,
                         HeaderCiphertext |-> encryptedHeader,
                         KeyGeneration    |-> key.KeyGeneration]]

\* find: the answer of CtxKeyFinder(ctx).Find; merkle: the Merkle client;
\* rnd: the next fresh nonce of the RNG
BoxMessage(msg, signingKeyPair, find, merkle, rnd) ==
    LET tlfName == msg.ClientHeader.TlfName
        msg1    == [msg EXCEPT !.ClientHeader.TlfName = find.CanonicalName]
        recent  == RecentKey(msg1, find)
        mr      == latestMerkleRoot(merkle)
        msg2    == [msg1 EXCEPT !.ClientHeader.MerkleRoot = mr.root]
        res     == boxMessageWithKeys(msg2, recent.key, signingKeyPair, rnd)
    IN  IF tlfName = ""
        THEN [err |-> BoxingError("blank TLF name given", TRUE), boxed |-> NULL]
        ELSE IF find.err
        THEN [err |-> BoxingError("CryptKeysError", FALSE), boxed |-> NULL]
        ELSE IF mr.err # ""
        THEN [err |-> BoxingError(mr.err, FALSE), boxed |-> NULL]
        ELSE IF msg2.ClientHeader.TlfName = ""
        THEN [err |-> BoxingError("blank TLF name received", TRUE), boxed |-> NULL]
        ELSE IF ~recent.set
        THEN [err |-> BoxingError("no key found for tlf", FALSE), boxed |-> NULL]
        ELSE IF res.err # ""
        THEN [err |-> BoxingError(res.err, TRUE), boxed |-> NULL]
        ELSE [err |-> NoBoxingError, boxed |-> res.boxed]

\* ---------------------------------------------------------- error taxonomy
NoError == [set |-> FALSE, inner |-> "", perm |-> FALSE, crit |-> FALSE, panic |-> FALSE]

NewPermanentUnboxingError(inner) ==
    [set |-> TRUE, inner |-> inner, perm |-> TRUE, crit |-> FALSE, panic |-> FALSE]

NewTransientUnboxingError(inner) ==
    [set |-> TRUE, inner |-> inner, perm |-> FALSE, crit |-> FALSE, panic |-> FALSE]

\* a nil-pointer dereference: the call does not return
Panic(what) == [set |-> TRUE, inner |-> what, perm |-> FALSE, crit |-> FALSE, panic |-> TRUE]

\* ------------------------------------------------------- sender key check
NoTime == [set |-> FALSE, t |-> 0]

\* the answers of UPAKLoader.CheckKIDForUID (and a missing loader)
LoaderAnswers ==
    {[loader |-> l, err |-> e, found |-> f, deleted |-> d, revokedAt |-> r] :
        l \in BOOLEAN, e \in BOOLEAN, f \in BOOLEAN, d \in BOOLEAN,
        r \in {NoTime} \cup {[set |-> TRUE, t |-> x] : x \in 0..(MaxTime + 1)}}

\* one representative per case of the loader's answer
LoaderCases ==
    {a \in LoaderAnswers :
        /\ (~a.loader => ~a.err /\ ~a.found /\ ~a.deleted /\ ~a.revokedAt.set)
        /\ (a.err => ~a.found /\ ~a.deleted /\ ~a.revokedAt.set)
        /\ (~a.found => ~a.deleted /\ ~a.revokedAt.set)}

\* the variant that accepts a key revoked at the very ctime
ValidSenderKeyAtCtime(ans, sender, key, ctime) ==
    LET ctime2      == ctime * 1000000
        u           == ans.revokedAt.t
        t           == (u \div 1000) * 1000000000 + (u % 1000) * 1000000
        revokedTime == t \div 1000000
    IN  IF ~ans.loader
        THEN [found |-> FALSE, validAtCTime |-> FALSE, revoked |-> NoTime,
              err |-> NewTransientUnboxingError("no CachedUserLoader available in context")]
        ELSE IF ans.err
        THEN [found |-> FALSE, validAtCTime |-> FALSE, revoked |-> NoTime,
              err |-> NewTransientUnboxingError("CheckKIDForUID failed")]
        ELSE IF ~ans.found
        THEN [found |-> FALSE, validAtCTime |-> FALSE, revoked |-> NoTime, err |-> NoError]
        ELSE IF ans.deleted
        THEN [found |-> TRUE, validAtCTime |-> TRUE, revoked |-> [set |-> TRUE, t |-> 0],
              err |-> NoError]
        ELSE IF ans.revokedAt.set
        THEN IF u = 0
             THEN [found |-> TRUE, validAtCTime |-> FALSE, revoked |-> NoTime,
                   err |-> NewPermanentUnboxingError("zero clock time on expired key")]
             ELSE [found |-> TRUE, validAtCTime |-> t >= ctime2,
                   revoked |-> [set |-> TRUE, t |-> revokedTime], err |-> NoError]
        ELSE [found |-> TRUE, validAtCTime |-> TRUE, revoked |-> NoTime, err |-> NoError]

\* the variant that treats a deleted sender's key like any other key
ValidSenderKeyUndeleted(ans, sender, key, ctime) ==
    LET ctime2      == ctime * 1000000
        u           == ans.revokedAt.t
        t           == (u \div 1000) * 1000000000 + (u % 1000) * 1000000
        revokedTime == t \div 1000000
    IN  IF ~ans.loader
        THEN [found |-> FALSE, validAtCTime |-> FALSE, revoked |-> NoTime,
              err |-> NewTransientUnboxingError("no CachedUserLoader available in context")]
        ELSE IF ans.err
        THEN [found |-> FALSE, validAtCTime |-> FALSE, revoked |-> NoTime,
              err |-> NewTransientUnboxingError("CheckKIDForUID failed")]
        ELSE IF ~ans.found
        THEN [found |-> FALSE, validAtCTime |-> FALSE, revoked |-> NoTime, err |-> NoError]
        ELSE IF ans.revokedAt.set
        THEN IF u = 0
             THEN [found |-> TRUE, validAtCTime |-> FALSE, revoked |-> NoTime,
                   err |-> NewPermanentUnboxingError("zero clock time on expired key")]
             ELSE [found |-> TRUE, validAtCTime |-> t > ctime2,
                   revoked |-> [set |-> TRUE, t |-> revokedTime], err |-> NoError]
        ELSE [found |-> TRUE, validAtCTime |-> TRUE, revoked |-> NoTime, err |-> NoError]

\* the variant that reports a revoked key valid whatever its revocation time
ValidSenderKeyRevoked(ans, sender, key, ctime) ==
    LET u           == ans.revokedAt.t
        t           == (u \div 1000) * 1000000000 + (u % 1000) * 1000000
        revokedTime == t \div 1000000
    IN  IF ~ans.loader
        THEN [found |-> FALSE, validAtCTime |-> FALSE, revoked |-> NoTime,
              err |-> NewTransientUnboxingError("no CachedUserLoader available in context")]
        ELSE IF ans.err
        THEN [found |-> FALSE, validAtCTime |-> FALSE, revoked |-> NoTime,
              err |-> NewTransientUnboxingError("CheckKIDForUID failed")]
        ELSE IF ~ans.found
        THEN [found |-> FALSE, validAtCTime |-> FALSE, revoked |-> NoTime, err |-> NoError]
        ELSE IF ans.deleted
        THEN [found |-> TRUE, validAtCTime |-> TRUE, revoked |-> [set |-> TRUE, t |-> 0],
              err |-> NoError]
        ELSE IF ans.revokedAt.set
        THEN IF u = 0
             THEN [found |-> TRUE, validAtCTime |-> FALSE, revoked |-> NoTime,
                   err |-> NewPermanentUnboxingError("zero clock time on expired key")]
             ELSE [found |-> TRUE, validAtCTime |-> TRUE,
                   revoked |-> [set |-> TRUE, t |-> revokedTime], err |-> NoError]
        ELSE [found |-> TRUE, validAtCTime |-> TRUE, revoked |-> NoTime, err |-> NoError]

\* times are milliseconds; time.Time is modelled in nanoseconds
ValidSenderKey(ans, sender, key, ctime) ==
    LET ctime2      == ctime * 1000000
        u           == ans.revokedAt.t
        t           == (u \div 1000) * 1000000000 + (u % 1000) * 1000000
        revokedTime == t \div 1000000
    IN  IF ~ans.loader
        THEN [found |-> FALSE, validAtCTime |-> FALSE, revoked |-> NoTime,
              err |-> NewTransientUnboxingError("no CachedUserLoader available in context")]
        ELSE IF ans.err
        THEN [found |-> FALSE, validAtCTime |-> FALSE, revoked |-> NoTime,
              err |-> NewTransientUnboxingError("CheckKIDForUID failed")]
        ELSE IF ~ans.found
        THEN [found |-> FALSE, validAtCTime |-> FALSE, revoked |-> NoTime, err |-> NoError]
        ELSE IF ans.deleted
        THEN [found |-> TRUE, validAtCTime |-> TRUE, revoked |-> [set |-> TRUE, t |-> 0],
              err |-> NoError]
        ELSE IF ans.revokedAt.set
        THEN IF u = 0
             THEN [found |-> TRUE, validAtCTime |-> FALSE, revoked |-> NoTime,
                   err |-> NewPermanentUnboxingError("zero clock time on expired key")]
             ELSE [found |-> TRUE, validAtCTime |-> t > ctime2,
                   revoked |-> [set |-> TRUE, t |-> revokedTime], err |-> NoError]
        ELSE [found |-> TRUE, validAtCTime |-> TRUE, revoked |-> NoTime, err |-> NoError]

\* ------------------------------------------------------------ verification
\* the variant that tags every unsupported header critical
headerUnsupportedCritical(headerVersion, header) == [Crit |-> TRUE]

headerUnsupported(headerVersion, header) ==
    IF headerVersion \in 2..10 THEN [Crit |-> header.crit] ELSE [Crit |-> TRUE]

bodyUnsupported(bodyVersion, body) ==
    IF bodyVersion \in 2..10 THEN [Crit |-> body.crit] ELSE [Crit |-> TRUE]

NewHeaderVersionError(headerVersion, unsupported) ==
    [set |-> TRUE, inner |-> "HeaderVersionError", perm |-> TRUE, crit |-> unsupported.Crit,
     panic |-> FALSE]

NewBodyVersionError(bodyVersion, unsupported) ==
    [set |-> TRUE, inner |-> "BodyVersionError", perm |-> TRUE, crit |-> unsupported.Crit,
     panic |-> FALSE]

\* the variant that verifies the signature before it compares the body hash
verifyMessageHeaderV1SigFirst(header, msg, skipBodyVerification, ans) ==
    LET bh    == hashV1(msg.BodyCiphertext.E)
        hcopy == [header EXCEPT !.HeaderSignature = NULL]
        hpack == marshal(hcopy)
        vsk   == ValidSenderKey(ans, header.Sender, header.HeaderSignature.K, msg.ServerHeader.Ctime)
        ret(asked, revoked, e) == [asked |-> asked, revoked |-> revoked, err |-> e]
    IN  IF header.HeaderSignature = NULL
        THEN ret(FALSE, NoTime, Panic("nil HeaderSignature"))
        ELSE IF ~verify(hpack, header.HeaderSignature)
        THEN ret(FALSE, NoTime, NewPermanentUnboxingError("BadSigError"))
        ELSE IF ~skipBodyVerification /\ bh # header.BodyHash
        THEN ret(FALSE, NoTime, NewPermanentUnboxingError("BodyHashInvalid"))
        ELSE IF vsk.err.set
        THEN ret(TRUE, NoTime, vsk.err)
        ELSE IF ~vsk.found
        THEN ret(TRUE, NoTime, NewPermanentUnboxingError("NoKeyError: sender key not found"))
        ELSE IF ~vsk.validAtCTime
        THEN ret(TRUE, NoTime,
                 NewPermanentUnboxingError("NoKeyError: key invalid for sender at message ctime"))
        ELSE ret(TRUE, vsk.revoked, NoError)

\* the variant that does not compare the body hash
verifyMessageHeaderV1AnyBody(header, msg, skipBodyVerification, ans) ==
    LET bh    == hashV1(msg.BodyCiphertext.E)
        hcopy == [header EXCEPT !.HeaderSignature = NULL]
        hpack == marshal(hcopy)
        vsk   == ValidSenderKey(ans, header.Sender, header.HeaderSignature.K, msg.ServerHeader.Ctime)
        \* asked: whether ValidSenderKey was called
        ret(asked, revoked, e) == [asked |-> asked, revoked |-> revoked, err |-> e]
    IN  IF header.HeaderSignature = NULL
        THEN ret(FALSE, NoTime, Panic("nil HeaderSignature"))
        ELSE IF ~verify(hpack, header.HeaderSignature)
        THEN ret(FALSE, NoTime, NewPermanentUnboxingError("BadSigError"))
        ELSE IF vsk.err.set
        THEN ret(TRUE, NoTime, vsk.err)
        ELSE IF ~vsk.found
        THEN ret(TRUE, NoTime, NewPermanentUnboxingError("NoKeyError: sender key not found"))
        ELSE IF ~vsk.validAtCTime
        THEN ret(TRUE, NoTime,
                 NewPermanentUnboxingError("NoKeyError: key invalid for sender at message ctime"))
        ELSE ret(TRUE, vsk.revoked, NoError)

\* verifyMessageHeaderV1: ans is the answer of the user loader
verifyMessageHeaderV1(header, msg, skipBodyVerification, ans) ==
    LET bh    == hashV1(msg.BodyCiphertext.E)
        hcopy == [header EXCEPT !.HeaderSignature = NULL]
        hpack == marshal(hcopy)
        vsk   == ValidSenderKey(ans, header.Sender, header.HeaderSignature.K, msg.ServerHeader.Ctime)
        \* asked: whether ValidSenderKey was called
        ret(asked, revoked, e) == [asked |-> asked, revoked |-> revoked, err |-> e]
    IN  IF ~skipBodyVerification /\ bh # header.BodyHash
        THEN ret(FALSE, NoTime, NewPermanentUnboxingError("BodyHashInvalid"))
        ELSE IF header.HeaderSignature = NULL
        THEN ret(FALSE, NoTime, Panic("nil HeaderSignature"))
        ELSE IF ~verify(hpack, header.HeaderSignature)
        THEN ret(FALSE, NoTime, NewPermanentUnboxingError("BadSigError"))
        ELSE IF vsk.err.set
        THEN ret(TRUE, NoTime, vsk.err)
        ELSE IF ~vsk.found
        THEN ret(TRUE, NoTime, NewPermanentUnboxingError("NoKeyError: sender key not found"))
        ELSE IF ~vsk.validAtCTime
        THEN ret(TRUE, NoTime,
                 NewPermanentUnboxingError("NoKeyError: key invalid for sender at message ctime"))
        ELSE ret(TRUE, vsk.revoked, NoError)

\* header.Version(): the tag of the union, or an error when the variant the
\* tag names is missing from the decoded record
HeaderVersion(header) ==
    IF \/ header.version = 1 /\ "V1" \notin DOMAIN header
       \/ header.version \in 2..10 /\ "crit" \notin DOMAIN header
    THEN [err |-> "unexpected nil value", v |-> 0]
    ELSE [err |-> "", v |-> header.version]

\* body.Version(), likewise
BodyVersion(body) ==
    IF \/ body.version = 1 /\ "V1" \notin DOMAIN body
       \/ body.version \in 2..10 /\ "crit" \notin DOMAIN body
    THEN [err |-> "unexpected nil value", v |-> 0]
    ELSE [err |-> "", v |-> body.version]

\* the variant that takes a header without body on trust
verifyMessageUnlessSkipped(header, msg, skipBodyVerification, ans) ==
    IF HeaderVersion(header).err # ""
    THEN [asked |-> FALSE, revoked |-> NoTime,
          err |-> NewPermanentUnboxingError(HeaderVersion(header).err)]
    ELSE IF header.version = 1
    THEN IF skipBodyVerification
         THEN [asked |-> TRUE, revoked |-> NoTime, err |-> NoError]
         ELSE verifyMessageHeaderV1(header.V1, msg, skipBodyVerification, ans)
    ELSE [asked |-> FALSE, revoked |-> NoTime,
          err |-> NewHeaderVersionError(header.version, headerUnsupported(header.version, header))]

verifyMessage(header, msg, skipBodyVerification, ans) ==
    IF HeaderVersion(header).err # ""
    THEN [asked |-> FALSE, revoked |-> NoTime,
          err |-> NewPermanentUnboxingError(HeaderVersion(header).err)]
    ELSE IF header.version = 1
    THEN verifyMessageHeaderV1(header.V1, msg, skipBodyVerification, ans)
    ELSE [asked |-> FALSE, revoked |-> NoTime,
          err |-> NewHeaderVersionError(header.version, headerUnsupported(header.version, header))]

\* ---------------------------------------------------------- Unbox with key
\* the zero value of chat1.MessageBody
EmptyMessageBody == ""

NoRes == [messagePlaintext |-> NULL, bodyHash |-> NULL, headerHash |-> NULL,
          headerSignature |-> NULL, senderDeviceRevokedAt |-> NoTime]

\* the variant that dispatches on the body version before it verifies the header
unboxMessageWithKeyBodyFirst(msg, key, ans) ==
    LET headerHash   == hashV1(msg.HeaderCiphertext.E)
        skipBodyVerification == IsEmptyBytes(msg.BodyCiphertext.E)
        packedBody   == open(msg.BodyCiphertext, key)
        body         == unmarshal(packedBody.plain)
        packedHeader == open(msg.HeaderCiphertext, key)
        header       == unmarshal(packedHeader.plain)
        validity     == verifyMessage(header, msg, skipBodyVerification, ans)
        hp           == header.V1
        clientHeader == [Conv         |-> hp.Conv,
                         TlfName      |-> hp.TlfName,
                         TlfPublic    |-> hp.TlfPublic,
                         MessageType  |-> hp.MessageType,
                         Prev         |-> hp.Prev,
                         Sender       |-> hp.Sender,
                         SenderDevice |-> hp.SenderDevice,
                         OutboxInfo   |-> hp.OutboxInfo,
                         OutboxID     |-> hp.OutboxID,
                         MerkleRoot   |-> NULL]
        res(mb)      == [messagePlaintext |-> [ClientHeader |-> clientHeader, MessageBody |-> mb],
                         bodyHash |-> hp.BodyHash,
                         headerHash |-> headerHash,
                         headerSignature |-> hp.HeaderSignature,
                         senderDeviceRevokedAt |-> validity.revoked]
        fail(e)      == [res |-> NoRes, err |-> e, asked |-> FALSE]
    IN  IF msg.ServerHeader = NULL
        THEN fail(NewPermanentUnboxingError("nil ServerHeader in MessageBoxed"))
        ELSE IF skipBodyVerification /\ msg.ServerHeader.SupersededBy = 0
        THEN fail(NewPermanentUnboxingError("empty body and not superseded in MessageBoxed"))
        ELSE IF ~skipBodyVerification /\ packedBody.err # ""
        THEN fail(NewPermanentUnboxingError(packedBody.err))
        ELSE IF ~skipBodyVerification /\ ~CanUnmarshal(packedBody.plain)
        THEN fail(NewPermanentUnboxingError("unmarshal body"))
        ELSE IF packedHeader.err # ""
        THEN fail(NewPermanentUnboxingError(packedHeader.err))
        ELSE IF ~CanUnmarshal(packedHeader.plain)
        THEN fail(NewPermanentUnboxingError("unmarshal header"))
        ELSE IF ~skipBodyVerification /\ BodyVersion(body).err = "" /\ body.version # 1
        THEN [res |-> NoRes, asked |-> FALSE,
              err |-> NewBodyVersionError(body.version, bodyUnsupported(body.version, body))]
        ELSE IF validity.err.set
        THEN [res |-> NoRes, err |-> validity.err, asked |-> validity.asked]
        ELSE IF header.version # 1
        THEN fail(NewHeaderVersionError(header.version, headerUnsupported(header.version, header)))
        ELSE IF skipBodyVerification
        THEN [res |-> res(EmptyMessageBody), err |-> NoError, asked |-> TRUE]
        ELSE IF BodyVersion(body).err # ""
        THEN [res |-> NoRes, asked |-> TRUE,
              err |-> NewPermanentUnboxingError(BodyVersion(body).err)]
        ELSE IF body.version = 1
        THEN [res |-> res(body.V1.MessageBody), err |-> NoError, asked |-> TRUE]
        ELSE [res |-> NoRes, asked |-> TRUE,
              err |-> NewBodyVersionError(body.version, bodyUnsupported(body.version, body))]

\* the variant that takes an empty body without looking at supersededBy
unboxMessageWithKeyAnyEmpty(msg, key, ans) ==
    LET headerHash   == hashV1(msg.HeaderCiphertext.E)
        skipBodyVerification == IsEmptyBytes(msg.BodyCiphertext.E)
        packedBody   == open(msg.BodyCiphertext, key)
        body         == unmarshal(packedBody.plain)
        packedHeader == open(msg.HeaderCiphertext, key)
        header       == unmarshal(packedHeader.plain)
        validity     == verifyMessage(header, msg, skipBodyVerification, ans)
        hp           == header.V1
        clientHeader == [Conv         |-> hp.Conv,
                         TlfName      |-> hp.TlfName,
                         TlfPublic    |-> hp.TlfPublic,
                         MessageType  |-> hp.MessageType,
                         Prev         |-> hp.Prev,
                         Sender       |-> hp.Sender,
                         SenderDevice |-> hp.SenderDevice,
                         OutboxInfo   |-> hp.OutboxInfo,
                         OutboxID     |-> hp.OutboxID,
                         MerkleRoot   |-> NULL]
        res(mb)      == [messagePlaintext |-> [ClientHeader |-> clientHeader, MessageBody |-> mb],
                         bodyHash |-> hp.BodyHash,
                         headerHash |-> headerHash,
                         headerSignature |-> hp.HeaderSignature,
                         senderDeviceRevokedAt |-> validity.revoked]
        fail(e)      == [res |-> NoRes, err |-> e, asked |-> FALSE]
    IN  IF msg.ServerHeader = NULL
        THEN fail(NewPermanentUnboxingError("nil ServerHeader in MessageBoxed"))
        ELSE IF ~skipBodyVerification /\ packedBody.err # ""
        THEN fail(NewPermanentUnboxingError(packedBody.err))
        ELSE IF ~skipBodyVerification /\ ~CanUnmarshal(packedBody.plain)
        THEN fail(NewPermanentUnboxingError("unmarshal body"))
        ELSE IF packedHeader.err # ""
        THEN fail(NewPermanentUnboxingError(packedHeader.err))
        ELSE IF ~CanUnmarshal(packedHeader.plain)
        THEN fail(NewPermanentUnboxingError("unmarshal header"))
        ELSE IF validity.err.set
        THEN [res |-> NoRes, err |-> validity.err, asked |-> validity.asked]
        ELSE IF header.version # 1
        THEN fail(NewHeaderVersionError(header.version, headerUnsupported(header.version, header)))
        ELSE IF skipBodyVerification
        THEN [res |-> res(EmptyMessageBody), err |-> NoError, asked |-> TRUE]
        ELSE IF BodyVersion(body).err # ""
        THEN [res |-> NoRes, asked |-> TRUE,
              err |-> NewPermanentUnboxingError(BodyVersion(body).err)]
        ELSE IF body.version = 1
        THEN [res |-> res(body.V1.MessageBody), err |-> NoError, asked |-> TRUE]
        ELSE [res |-> NoRes, asked |-> TRUE,
              err |-> NewBodyVersionError(body.version, bodyUnsupported(body.version, body))]

\* unboxMessageWithKey: ans is the answer of the user loader
unboxMessageWithKey(msg, key, ans) ==
    LET headerHash   == hashV1(msg.HeaderCiphertext.E)
        skipBodyVerification == IsEmptyBytes(msg.BodyCiphertext.E)
        packedBody   == open(msg.BodyCiphertext, key)
        body         == unmarshal(packedBody.plain)
        packedHeader == open(msg.HeaderCiphertext, key)
        header       == unmarshal(packedHeader.plain)
        validity     == verifyMessage(header, msg, skipBodyVerification, ans)
        hp           == header.V1
        clientHeader == [Conv         |-> hp.Conv,
                         TlfName      |-> hp.TlfName,
                         TlfPublic    |-> hp.TlfPublic,
                         MessageType  |-> hp.MessageType,
                         Prev         |-> hp.Prev,
                         Sender       |-> hp.Sender,
                         SenderDevice |-> hp.SenderDevice,
                         OutboxInfo   |-> hp.OutboxInfo,
                         OutboxID     |-> hp.OutboxID,
                         MerkleRoot   |-> NULL]
        res(mb)      == [messagePlaintext |-> [ClientHeader |-> clientHeader, MessageBody |-> mb],
                         bodyHash |-> hp.BodyHash,
                         headerHash |-> headerHash,
                         headerSignature |-> hp.HeaderSignature,
                         senderDeviceRevokedAt |-> validity.revoked]
        fail(e)      == [res |-> NoRes, err |-> e, asked |-> FALSE]
    IN  IF msg.ServerHeader = NULL
        THEN fail(NewPermanentUnboxingError("nil ServerHeader in MessageBoxed"))
        ELSE IF skipBodyVerification /\ msg.ServerHeader.SupersededBy = 0
        THEN fail(NewPermanentUnboxingError("empty body and not superseded in MessageBoxed"))
        ELSE IF ~skipBodyVerification /\ packedBody.err # ""
        THEN fail(NewPermanentUnboxingError(packedBody.err))
        ELSE IF ~skipBodyVerification /\ ~CanUnmarshal(packedBody.plain)
        THEN fail(NewPermanentUnboxingError("unmarshal body"))
        ELSE IF packedHeader.err # ""
        THEN fail(NewPermanentUnboxingError(packedHeader.err))
        ELSE IF ~CanUnmarshal(packedHeader.plain)
        THEN fail(NewPermanentUnboxingError("unmarshal header"))
        ELSE IF validity.err.set
        THEN [res |-> NoRes, err |-> validity.err, asked |-> validity.asked]
        ELSE IF header.version # 1
        THEN fail(NewHeaderVersionError(header.version, headerUnsupported(header.version, header)))
        ELSE IF skipBodyVerification
        THEN [res |-> res(EmptyMessageBody), err |-> NoError, asked |-> TRUE]
        ELSE IF BodyVersion(body).err # ""
        THEN [res |-> NoRes, asked |-> TRUE,
              err |-> NewPermanentUnboxingError(BodyVersion(body).err)]
        ELSE IF body.version = 1
        THEN [res |-> res(body.V1.MessageBody), err |-> NoError, asked |-> TRUE]
        ELSE [res |-> NoRes, asked |-> TRUE,
              err |-> NewBodyVersionError(body.version, bodyUnsupported(body.version, body))]

\* ------------------------------------------------------------ Replay Guard
\* The two checkers are handed to NewBoxer by its caller; they follow the
\* description of the Replay Guard: an index that refuses a second value for a
\* key it holds and records the value otherwise.
\* g.body: the entries (bodyHash, convID) -> msgID; g.prev: (msgID, convID) -> headerHash
EmptyGuard == [body |-> {}, prev |-> {}]

\* the index named by a guard's field down cannot be reached: its checker
\* returns the backend's error
GuardDown(g, index) == "down" \in DOMAIN g /\ g.down = index

\* the variant that records the body hash without looking for it
bodyHashCheckerOpen(g, bodyHash, uniqueMsgID, uniqueConvID) ==
    IF GuardDown(g, "body")
    THEN [err |-> "guard backend failure", g |-> g]
    ELSE [err |-> "",
          g |-> [g EXCEPT !.body = @ \cup {[conv |-> uniqueConvID, hash |-> bodyHash, id |-> uniqueMsgID]}]]

bodyHashChecker(g, bodyHash, uniqueMsgID, uniqueConvID) ==
    IF GuardDown(g, "body")
    THEN [err |-> "guard backend failure", g |-> g]
    ELSE IF \E e \in g.body : e.conv = uniqueConvID /\ e.hash = bodyHash /\ e.id # uniqueMsgID
    THEN [err |-> "replayed body hash", g |-> g]
    ELSE [err |-> "",
          g |-> [g EXCEPT !.body = @ \cup {[conv |-> uniqueConvID, hash |-> bodyHash, id |-> uniqueMsgID]}]]

prevChecker(g, msgID, convID, uniqueHeaderHash) ==
    IF GuardDown(g, "prev")
    THEN [err |-> "guard backend failure", g |-> g]
    ELSE IF \E e \in g.prev : e.conv = convID /\ e.id = msgID /\ e.hash # uniqueHeaderHash
    THEN [err |-> "inconsistent header/prev hash", g |-> g]
    ELSE [err |-> "",
          g |-> [g EXCEPT !.prev = @ \cup {[conv |-> convID, id |-> msgID, hash |-> uniqueHeaderHash]}]]

\* the variant of the loop that does not stop at a refused prev-pointer
RECURSIVE PrevLoopThrough(_, _, _, _)
PrevLoopThrough(g, prev, i, convID) ==
    IF i > Len(prev) THEN [err |-> "", g |-> g]
    ELSE PrevLoopThrough(prevChecker(g, prev[i].Id, convID, prev[i].Hash).g, prev, i + 1, convID)

\* the loop over pt.ClientHeader.Prev of UnboxMessage
RECURSIVE PrevLoop(_, _, _, _)
PrevLoop(g, prev, i, convID) ==
    IF i > Len(prev) THEN [err |-> "", g |-> g]
    ELSE LET r == prevChecker(g, prev[i].Id, convID, prev[i].Hash)
         IN  IF r.err # "" THEN r ELSE PrevLoop(r.g, prev, i + 1, convID)

\* ----------------------------------------------------------- Unbox pipeline
NoMessage == [state |-> "none"]

makeErrorMessage(msg, err) ==
    [state       |-> "error",
     ErrMsg      |-> err.inner,
     MessageID   |-> msg.ServerHeader.MessageID,
     MessageType |-> msg.ClientHeader.MessageType,
     Ctime       |-> msg.ServerHeader.Ctime]

\* the key of boxed.KeyGeneration: the first match of the range loop
MatchKeys(keys, gen) == {i \in 1..Len(keys) : keys[i].KeyGeneration = gen}

\* the variant that takes the head of the list whatever its generation
MatchKeyHead(keys, gen) == keys[1]

MatchKey(keys, gen) == keys[CHOOSE i \in MatchKeys(keys, gen) : \A j \in MatchKeys(keys, gen) : i <= j]

\* getSenderInfoLocal, then getSenderUsername when it failed
SenderInfo(lookup) ==
    IF lookup = "full"
    THEN [username |-> "alice", deviceName |-> "phone", deviceType |-> "mobile"]
    ELSE IF lookup = "name"
    THEN [username |-> "alice", deviceName |-> "", deviceType |-> ""]
    ELSE [username |-> "", deviceName |-> "", deviceType |-> ""]

\* the variant that gives up when no lookup names the sender
UnboxVerifiedNamed(boxed, convID, umwkr, lookup, g) ==
    LET pt        == umwkr.res.messagePlaintext
        info      == SenderInfo(lookup)
        replay    == bodyHashChecker(g, umwkr.res.bodyHash, boxed.ServerHeader.MessageID, convID)
        replayErr == replay.err
        prevPtr   == prevChecker(replay.g, boxed.ServerHeader.MessageID, convID, umwkr.res.headerHash)
        prevs     == PrevLoop(prevPtr.g, pt.ClientHeader.Prev, 1, convID)
        \* NewPermanentUnboxingError(replayErr) after the body-hash check passed
        nilReplay == NewPermanentUnboxingError("<nil>")
        ret(m, e, gg) == [panic |-> FALSE, msg |-> m, err |-> e, g |-> gg, asked |-> TRUE]
    IN  IF lookup = "none"
        THEN ret(NoMessage, NewTransientUnboxingError("LookupUsername failed"), g)
        ELSE IF replayErr # ""
        THEN ret(NoMessage, NewPermanentUnboxingError(replayErr), replay.g)
        ELSE IF prevPtr.err # ""
        THEN ret(NoMessage, nilReplay, prevPtr.g)
        ELSE IF prevs.err # ""
        THEN ret(NoMessage, nilReplay, prevs.g)
        ELSE ret([state                 |-> "valid",
                  ClientHeader          |-> pt.ClientHeader,
                  ServerHeader          |-> boxed.ServerHeader,
                  MessageBody           |-> pt.MessageBody,
                  SenderUsername        |-> info.username,
                  SenderDeviceName      |-> info.deviceName,
                  SenderDeviceType      |-> info.deviceType,
                  BodyHash              |-> umwkr.res.bodyHash,
                  HeaderHash            |-> umwkr.res.headerHash,
                  HeaderSignature       |-> umwkr.res.headerSignature,
                  SenderDeviceRevokedAt |-> umwkr.res.senderDeviceRevokedAt],
                 NoError, prevs.g)

\* the variant that returns the client header of the envelope
UnboxVerifiedClear(boxed, convID, umwkr, lookup, g) ==
    LET pt        == umwkr.res.messagePlaintext
        info      == SenderInfo(lookup)
        replay    == bodyHashChecker(g, umwkr.res.bodyHash, boxed.ServerHeader.MessageID, convID)
        replayErr == replay.err
        prevPtr   == prevChecker(replay.g, boxed.ServerHeader.MessageID, convID, umwkr.res.headerHash)
        prevs     == PrevLoop(prevPtr.g, pt.ClientHeader.Prev, 1, convID)
        \* NewPermanentUnboxingError(replayErr) after the body-hash check passed
        nilReplay == NewPermanentUnboxingError("<nil>")
        ret(m, e, gg) == [panic |-> FALSE, msg |-> m, err |-> e, g |-> gg, asked |-> TRUE]
    IN  IF replayErr # ""
        THEN ret(NoMessage, NewPermanentUnboxingError(replayErr), replay.g)
        ELSE IF prevPtr.err # ""
        THEN ret(NoMessage, nilReplay, prevPtr.g)
        ELSE IF prevs.err # ""
        THEN ret(NoMessage, nilReplay, prevs.g)
        ELSE ret([state                 |-> "valid",
                  ClientHeader          |-> boxed.ClientHeader,
                  ServerHeader          |-> boxed.ServerHeader,
                  MessageBody           |-> pt.MessageBody,
                  SenderUsername        |-> info.username,
                  SenderDeviceName      |-> info.deviceName,
                  SenderDeviceType      |-> info.deviceType,
                  BodyHash              |-> umwkr.res.bodyHash,
                  HeaderHash            |-> umwkr.res.headerHash,
                  HeaderSignature       |-> umwkr.res.headerSignature,
                  SenderDeviceRevokedAt |-> umwkr.res.senderDeviceRevokedAt],
                 NoError, prevs.g)

\* the variant that does not look at the answer of bodyHashChecker
UnboxVerifiedAnyBody(boxed, convID, umwkr, lookup, g) ==
    LET pt        == umwkr.res.messagePlaintext
        info      == SenderInfo(lookup)
        replay    == bodyHashChecker(g, umwkr.res.bodyHash, boxed.ServerHeader.MessageID, convID)
        replayErr == replay.err
        prevPtr   == prevChecker(replay.g, boxed.ServerHeader.MessageID, convID, umwkr.res.headerHash)
        prevs     == PrevLoop(prevPtr.g, pt.ClientHeader.Prev, 1, convID)
        \* NewPermanentUnboxingError(replayErr) after the body-hash check passed
        nilReplay == NewPermanentUnboxingError("<nil>")
        ret(m, e, gg) == [panic |-> FALSE, msg |-> m, err |-> e, g |-> gg, asked |-> TRUE]
    IN  IF prevPtr.err # ""
        THEN ret(NoMessage, nilReplay, prevPtr.g)
        ELSE IF prevs.err # ""
        THEN ret(NoMessage, nilReplay, prevs.g)
        ELSE ret([state                 |-> "valid",
                  ClientHeader          |-> pt.ClientHeader,
                  ServerHeader          |-> boxed.ServerHeader,
                  MessageBody           |-> pt.MessageBody,
                  SenderUsername        |-> info.username,
                  SenderDeviceName      |-> info.deviceName,
                  SenderDeviceType      |-> info.deviceType,
                  BodyHash              |-> umwkr.res.bodyHash,
                  HeaderHash            |-> umwkr.res.headerHash,
                  HeaderSignature       |-> umwkr.res.headerSignature,
                  SenderDeviceRevokedAt |-> umwkr.res.senderDeviceRevokedAt],
                 NoError, prevs.g)

\* UnboxMessage from line 136 on: umwkr is the result of unboxMessageWithKey
\* without error; lookup: which sender lookup succeeds; g: the guard
UnboxVerified(boxed, convID, umwkr, lookup, g) ==
    LET pt        == umwkr.res.messagePlaintext
        info      == SenderInfo(lookup)
        replay    == bodyHashChecker(g, umwkr.res.bodyHash, boxed.ServerHeader.MessageID, convID)
        replayErr == replay.err
        prevPtr   == prevChecker(replay.g, boxed.ServerHeader.MessageID, convID, umwkr.res.headerHash)
        prevs     == PrevLoop(prevPtr.g, pt.ClientHeader.Prev, 1, convID)
        \* NewPermanentUnboxingError(replayErr) after the body-hash check passed
        nilReplay == NewPermanentUnboxingError("<nil>")
        ret(m, e, gg) == [panic |-> FALSE, msg |-> m, err |-> e, g |-> gg, asked |-> TRUE]
    IN  IF replayErr # ""
        THEN ret(NoMessage, NewPermanentUnboxingError(replayErr), replay.g)
        ELSE IF prevPtr.err # ""
        THEN ret(NoMessage, nilReplay, prevPtr.g)
        ELSE IF prevs.err # ""
        THEN ret(NoMessage, nilReplay, prevs.g)
        ELSE ret([state                 |-> "valid",
                  ClientHeader          |-> pt.ClientHeader,
                  ServerHeader          |-> boxed.ServerHeader,
                  MessageBody           |-> pt.MessageBody,
                  SenderUsername        |-> info.username,
                  SenderDeviceName      |-> info.deviceName,
                  SenderDeviceType      |-> info.deviceType,
                  BodyHash              |-> umwkr.res.bodyHash,
                  HeaderHash            |-> umwkr.res.headerHash,
                  HeaderSignature       |-> umwkr.res.headerSignature,
                  SenderDeviceRevokedAt |-> umwkr.res.senderDeviceRevokedAt],
                 NoError, prevs.g)

\* the variant that records the body hash of an envelope it refuses
UnboxKeyedRecorded(boxed, convID, umwkr, lookup, g) ==
    LET ierr == umwkr.err
        seen == bodyHashChecker(g, hashV1(boxed.BodyCiphertext.E),
                                boxed.ServerHeader.MessageID, convID).g
    IN  IF ierr.set
        THEN IF ierr.panic \/ boxed.ServerHeader = NULL
             THEN [panic |-> TRUE, msg |-> NoMessage, err |-> ierr, g |-> g, asked |-> FALSE]
             ELSE IF ierr.perm
             THEN [panic |-> FALSE, msg |-> makeErrorMessage(boxed, ierr), err |-> NoError,
                   g |-> seen, asked |-> umwkr.asked]
             ELSE [panic |-> FALSE, msg |-> NoMessage, err |-> ierr, g |-> g,
                   asked |-> umwkr.asked]
        ELSE UnboxVerified(boxed, convID, umwkr, lookup, g)

\* UnboxMessage from line 127 on: umwkr, ierr are the result of
\* unboxMessageWithKey.  A panic leaves no result.
UnboxKeyed(boxed, convID, umwkr, lookup, g) ==
    LET ierr == umwkr.err
    IN  IF ierr.set
        THEN IF ierr.panic \/ boxed.ServerHeader = NULL
             THEN [panic |-> TRUE, msg |-> NoMessage, err |-> ierr, g |-> g, asked |-> FALSE]
             ELSE IF ierr.perm
             THEN [panic |-> FALSE, msg |-> makeErrorMessage(boxed, ierr), err |-> NoError,
                   g |-> g, asked |-> umwkr.asked]
             ELSE [panic |-> FALSE, msg |-> NoMessage, err |-> ierr, g |-> g,
                   asked |-> umwkr.asked]
        ELSE UnboxVerified(boxed, convID, umwkr, lookup, g)

\* the variant that reads the key list without testing the key finder's error
UnboxMessageAnyFind(boxed, convID, find, ans, lookup, g) ==
    IF MatchKeys(find.CryptKeys, boxed.KeyGeneration) = {}
    THEN [panic |-> FALSE, msg |-> NoMessage,
          err |-> NewTransientUnboxingError("no key found for generation"),
          g |-> g, asked |-> FALSE]
    ELSE CHOOSE out \in
            {UnboxKeyed(boxed, convID, umwkr, lookup, g) :
                umwkr \in {unboxMessageWithKey(boxed, MatchKey(find.CryptKeys, boxed.KeyGeneration), ans)}} : TRUE

\* find: the answer of CtxKeyFinder(ctx).Find; ans: the answer of the user
\* loader's CheckKIDForUID; lookup: which sender lookup succeeds; g: the guard.
\* Result: (msg, err) is the pair (MessageUnboxed, UnboxingError), g the guard
\* after the call, asked whether the call reached ValidSenderKey.
\* (u \in {e} names the value of e.)
UnboxMessage(boxed, convID, find, ans, lookup, g) ==
    IF find.err
    THEN [panic |-> FALSE, msg |-> NoMessage, err |-> NewTransientUnboxingError("KeyFinder"),
          g |-> g, asked |-> FALSE]
    ELSE IF MatchKeys(find.CryptKeys, boxed.KeyGeneration) = {}
    THEN [panic |-> FALSE, msg |-> NoMessage,
          err |-> NewTransientUnboxingError("no key found for generation"),
          g |-> g, asked |-> FALSE]
    ELSE CHOOSE out \in
            {UnboxKeyed(boxed, convID, umwkr, lookup, g) :
                umwkr \in {unboxMessageWithKey(boxed, MatchKey(find.CryptKeys, boxed.KeyGeneration), ans)}} : TRUE

\* ------------------------------------------------------------------ batch
\* the variant that hands every message the guard as it was before the batch
RECURSIVE UnboxMessagesLoopApart(_, _, _, _, _, _, _, _)
UnboxMessagesLoopApart(boxed, i, unboxed, convID, find, ans, lookup, g) ==
    IF i > Len(boxed)
    THEN [panic |-> FALSE, unboxed |-> unboxed, err |-> NoError, g |-> g]
    ELSE CHOOSE out \in
            {IF r.panic \/ r.err.set
             THEN [panic |-> r.panic, unboxed |-> unboxed, err |-> r.err, g |-> r.g]
             ELSE UnboxMessagesLoopApart(boxed, i + 1, Append(unboxed, r.msg),
                                         convID, find, ans, lookup, g) :
                r \in {UnboxMessage(boxed[i], convID, find, ans, lookup, g)}} : TRUE

\* The range loop of UnboxMessages from element i on: unboxed holds the
\* records appended so far, g is the guard.  The loop returns at the first
\* message for which UnboxMessage returns a non-nil error.
RECURSIVE UnboxMessagesLoop(_, _, _, _, _, _, _, _)
UnboxMessagesLoop(boxed, i, unboxed, convID, find, ans, lookup, g) ==
    IF i > Len(boxed)
    THEN [panic |-> FALSE, unboxed |-> unboxed, err |-> NoError, g |-> g]
    ELSE CHOOSE out \in
            {IF r.panic \/ r.err.set
             THEN [panic |-> r.panic, unboxed |-> unboxed, err |-> r.err, g |-> r.g]
             ELSE UnboxMessagesLoop(boxed, i + 1, Append(unboxed, r.msg),
                                    convID, find, ans, lookup, r.g) :
                r \in {UnboxMessage(boxed[i], convID, find, ans, lookup, g)}} : TRUE

UnboxMessages(boxed, convID, find, ans, lookup, g) ==
    UnboxMessagesLoop(boxed, 1, <<>>, convID, find, ans, lookup, g)

\* the zero value of chat1.ThreadView
NoThread == [Messages |-> <<>>, Pagination |-> NULL]

UnboxThread(boxed, convID, find, ans, lookup, g) ==
    CHOOSE out \in
        {IF r.panic \/ r.err.set
         THEN [panic |-> r.panic, thread |-> NoThread, err |-> r.err, g |-> r.g]
         ELSE [panic |-> FALSE,
               thread |-> [Messages |-> r.unboxed, Pagination |-> boxed.Pagination],
               err |-> NoError, g |-> r.g] :
            r \in {UnboxMessages(boxed.Messages, convID, find, ans, lookup, g)}} : TRUE

\* ------------------------------------------------------------ state machine
VARIABLES
    tlfKeys,   \* the key list the key finder returns for the TLF
    rng,       \* the next fresh nonce of the random number generator
    sent,      \* the last BoxMessage call: its inputs and its result
    wire,      \* the envelope the server delivers: env, and what was altered in it
    guard,     \* the Replay Guard indexes
    last,      \* the UnboxMessage call made on wire: its inputs and its result
    valids,    \* history: (convID, msgID, bodyHash) of every valid record returned
    calls,     \* the number of UnboxMessage calls made
    boxes,     \* the number of BoxMessage calls made
    batch,     \* the UnboxThread call made: its thread and its result
    run        \* two concurrent UnboxMessage calls: their inputs, places and results

vars == <<tlfKeys, rng, sent, wire, guard, last, valids, calls, boxes, batch, run>>

NoSent == [done |-> FALSE]
NoWire == [set |-> FALSE]
NoLast == [done |-> FALSE]
NoBatch == [done |-> FALSE]
NoRun == [on |-> FALSE]

\* An earlier message of conversation 1, unboxed as message 1 before the
\* behaviour starts: its header and body ciphertexts, and the guard it left.
EarlierHeader == secretboxSeal(marshal("earlier header"), 0, 1)
EarlierBody   == secretboxSeal(marshal("earlier body"), 0, 1)

EarlierGuard ==
    [body |-> {[conv |-> 1, hash |-> hashV1(EarlierBody), id |-> 1]},
     prev |-> {[conv |-> 1, id |-> 1, hash |-> hashV1(EarlierHeader)]}]

EarlierValids == {[conv |-> 1, id |-> 1, hash |-> hashV1(EarlierBody)]}

BogusHash == hashV1(EmptyBytes)

\* prev-pointers a sender can make: to the earlier message, or to a wrong hash
PrevPtrs == {[Id |-> 1, Hash |-> h] : h \in {hashV1(EarlierHeader), BogusHash}}

PrevLists == UNION {[1..n -> PrevPtrs] : n \in 0..MaxPrev}

ClientHeaders ==
    {[Conv |-> 1, TlfName |-> n, TlfPublic |-> p, MessageType |-> "TEXT", Prev |-> pv,
      Sender |-> "uid1", SenderDevice |-> "dev1", OutboxInfo |-> NULL, OutboxID |-> NULL,
      MerkleRoot |-> NULL] :
        n \in TlfNames, p \in BOOLEAN, pv \in PrevLists}

PlainTexts == {[ClientHeader |-> h, MessageBody |-> b] : h \in ClientHeaders, b \in Bodies}

SigningKeyPairs == {[kid |-> k, canSign |-> c] : k \in KIDs, c \in BOOLEAN}

MerkleClients ==
    {[client |-> "none", root |-> NULL], [client |-> "error", root |-> NULL]}
        \cup {[client |-> "ok", root |-> r] : r \in MerkleRoots}

\* the server marks a superseded message with the id of the superseding one
ServerHeaders ==
    {[MessageID |-> i, Ctime |-> c, SupersededBy |-> s] :
        i \in MsgIDs, c \in CTimes, s \in {0, MaxMsgID + 1}}

InitWith(keyLists) ==
    /\ tlfKeys \in keyLists
    /\ calls = 0
    /\ boxes = 0
    /\ rng = 1
    /\ sent = NoSent
    /\ wire = NoWire
    /\ \/ guard = EmptyGuard /\ valids = {}
       \/ guard = EarlierGuard /\ valids = EarlierValids
    /\ last = NoLast
    /\ batch = NoBatch
    /\ run = NoRun

\* MessageBoxed.serverHeader is a nullable field
MaybeServerHeaders == ServerHeaders \cup {NULL}

\* the key finder returns no key or one key
Init == InitWith({ks \in KeyLists : Len(ks) <= 1})

\* every key list, in every order
InitBox == InitWith(KeyLists)

\* a Replay Guard one of whose indexes cannot be reached
DownGuards == {[body |-> {}, prev |-> {}, down |-> d] : d \in {"body", "prev"}}

InitDown ==
    /\ tlfKeys \in {ks \in KeyLists : Len(ks) <= 1}
    /\ calls = 0
    /\ boxes = 0
    /\ rng = 1
    /\ sent = NoSent
    /\ wire = NoWire
    /\ guard \in DownGuards /\ valids = {}
    /\ last = NoLast
    /\ batch = NoBatch
    /\ run = NoRun

\* a client calls BoxMessage with a plaintext of msgs, a keypair of kps and
\* collaborators answering from ferrs, canons and merkles
BoxWith(msgs, kps, ferrs, canons, merkles) ==
    /\ boxes < MaxBox
    /\ boxes' = boxes + 1
    /\ \E msg \in msgs, kp \in kps, ferr \in ferrs, canon \in canons, merkle \in merkles :
        \E find \in {[err |-> ferr, CanonicalName |-> canon, CryptKeys |-> tlfKeys]} :
        \E r \in {BoxMessage(msg, kp, find, merkle, rng)} :
            /\ sent' = [done |-> TRUE, msg |-> msg, kp |-> kp, find |-> find,
                        merkle |-> merkle, err |-> r.err, boxed |-> r.boxed]
            /\ rng' = IF r.err.set THEN rng ELSE rng + 2
            /\ wire' = NoWire
            /\ last' = NoLast
            /\ UNCHANGED <<tlfKeys, guard, valids, calls, batch, run>>

\* BoxMessage while the key finder, the Merkle client and the signing key work
HelloTexts == {m \in PlainTexts : m.MessageBody = "hello"}

AbleKeyPairs == {kp \in SigningKeyPairs : kp.canSign}

GoodCanonNames == CanonNames \ {""}

GoodMerkleClients == {m \in MerkleClients : m.client = "ok" /\ m.root # NULL}

Box == BoxWith(HelloTexts, AbleKeyPairs, {FALSE}, GoodCanonNames, GoodMerkleClients)

\* BoxMessage with any answer of its collaborators
BoxAny == BoxWith(PlainTexts, SigningKeyPairs, BOOLEAN, CanonNames, MerkleClients)

\* the server hands the posted envelope to a receiver: it attaches a server
\* header (or none) and may have dropped the body
Deliver ==
    /\ sent.done /\ ~sent.err.set
    /\ calls < MaxUnbox
    /\ \E sh \in MaybeServerHeaders, drop \in BOOLEAN :
        /\ (sh = NULL => ~drop)
        /\ wire' = [set |-> TRUE, tamper |-> "none",
                 env |-> [sent.boxed EXCEPT
                            !.ServerHeader = sh,
                            !.BodyCiphertext.E = IF drop THEN EmptyBytes ELSE @]]
    /\ last' = NoLast
    /\ UNCHANGED <<tlfKeys, rng, sent, guard, valids, calls, boxes, batch, run>>

Tampers == {"body.flip", "body.reseal", "hdr.V", "hdr.E.flip", "hdr.N.id", "hdr.N.len"}

\* one field of the delivered envelope altered
Tampered(env, t) ==
    IF t = "body.flip"
    THEN [env EXCEPT !.BodyCiphertext.E.auth = FALSE]
    ELSE IF t = "body.reseal"
    THEN [env EXCEPT !.BodyCiphertext.E.pt =
              marshal([version |-> 1, V1 |-> [MessageBody |-> "forged"]])]
    ELSE IF t = "hdr.V"
    THEN [env EXCEPT !.HeaderCiphertext.V = @ + 1]
    ELSE IF t = "hdr.E.flip"
    THEN [env EXCEPT !.HeaderCiphertext.E.auth = FALSE]
    ELSE IF t = "hdr.N.id"
    THEN [env EXCEPT !.HeaderCiphertext.N.id = @ + 100]
    ELSE [env EXCEPT !.HeaderCiphertext.N.len = @ - 1]

\* a delivery as a server that follows the protocol makes it
Honest(env) ==
    /\ env.ServerHeader # NULL
    /\ env.ServerHeader.SupersededBy = 0
    /\ ~IsEmptyBytes(env.BodyCiphertext.E)

\* the server (or a holder of the key) alters one field of an otherwise
\* honest delivery
Tamper ==
    /\ wire.set /\ wire.tamper = "none"
    /\ calls < MaxUnbox
    /\ Honest(wire.env)
    /\ \E t \in Tampers :
        /\ wire' = [wire EXCEPT !.tamper = t, !.env = Tampered(wire.env, t)]
    /\ last' = NoLast
    /\ UNCHANGED <<tlfKeys, rng, sent, guard, valids, calls, boxes, batch, run>>

\* What the sender, or a holder of the TLF key, can seal in place of the body:
\* a body plaintext of another version with its critical flag.  The sender
\* signs a header with the new body's hash ("body.version"); a key holder
\* without the signing key puts the hash under the old signature
\* ("body.version/sig") or leaves the header as it is ("body.version/hash").
BodyForgeries ==
    {[kind |-> "body.version", v |-> v, crit |-> c] : v \in {2, 11}, c \in BOOLEAN}
        \cup {[kind |-> k, v |-> 2, crit |-> TRUE] : k \in {"body.version/sig", "body.version/hash"}}

ForgedBody(env, f) ==
    LET E      == [env.BodyCiphertext.E EXCEPT !.pt = marshal([version |-> f.v, crit |-> f.crit])]
        header == unmarshal(env.HeaderCiphertext.E.pt)
        hashed == [header.V1 EXCEPT !.BodyHash = hashV1(E)]
        sig    == signMarshal([hashed EXCEPT !.HeaderSignature = NULL],
                              [kid |-> header.V1.HeaderSignature.K, canSign |-> TRUE])
        signed == [hashed EXCEPT !.HeaderSignature = sig.sigInfo]
        sealed(h) == [env EXCEPT !.BodyCiphertext.E = E,
                                 !.HeaderCiphertext.E.pt = marshal([version |-> 1, V1 |-> h])]
    IN  IF f.kind = "body.version" THEN sealed(signed)
        ELSE IF f.kind = "body.version/sig" THEN sealed(hashed)
        ELSE [env EXCEPT !.BodyCiphertext.E = E]

\* what a holder of the TLF key can seal in place of the header: the header
\* with another TLF name under the old signature (alone, or together with
\* another body), a header of another version with its critical flag, a
\* version tag without its variant
Forgeries ==
    {[kind |-> "hdr.resign"], [kind |-> "hdr.resign+body"], [kind |-> "hdr.novariant", v |-> 2],
     [kind |-> "hdr.nosig"]}
        \cup BodyForgeries
        \cup {[kind |-> "hdr.version", v |-> v, crit |-> c] : v \in {2, 10, 11}, c \in BOOLEAN}

ForgedHeader(header, f) ==
    IF f.kind \in {"hdr.resign", "hdr.resign+body"}
    THEN [header EXCEPT !.V1.TlfName = "mallory"]
    ELSE IF f.kind = "hdr.nosig"
    THEN [header EXCEPT !.V1.HeaderSignature = NULL]
    ELSE IF f.kind = "hdr.novariant"
    THEN [version |-> f.v]
    ELSE [version |-> f.v, crit |-> f.crit]

\* the envelope with the forged header sealed under the same key and nonce
Forged(env, f) ==
    LET hdr == [env EXCEPT !.HeaderCiphertext.E.pt =
                    marshal(ForgedHeader(unmarshal(env.HeaderCiphertext.E.pt), f))]
    IN  IF f \in BodyForgeries THEN ForgedBody(env, f)
        ELSE IF f.kind = "hdr.resign+body" THEN Tampered(hdr, "body.reseal")
        ELSE hdr

\* the sender or a holder of the TLF key replaces the header or the body of a
\* delivery
Forge ==
    /\ wire.set /\ wire.tamper = "none"
    /\ calls < MaxUnbox
    /\ wire.env.ServerHeader # NULL
    /\ \E f \in Forgeries :
        /\ (f.kind = "hdr.resign+body" \/ f \in BodyForgeries
                => ~IsEmptyBytes(wire.env.BodyCiphertext.E))
        /\ wire' = [wire EXCEPT !.tamper = f.kind, !.env = Forged(wire.env, f)]
    /\ last' = NoLast
    /\ UNCHANGED <<tlfKeys, rng, sent, guard, valids, calls, boxes, batch, run>>

Lookups == {"full", "name", "none"}

\* the loader's answers with which verifyMessageHeaderV1 accepts the sender key
Accepting(ans, ctime) ==
    LET v == ValidSenderKey(ans, "uid1", "kid1", ctime)
    IN  ~v.err.set /\ v.found /\ v.validAtCTime

\* The collaborators' answers to one UnboxMessage call.  An answer the call
\* never asks for is fixed: no loader answer matters once the key finder
\* failed, and the sender lookups are made only for an accepted sender key.
UnboxInputs ==
    {in \in [ferr : BOOLEAN, ans : LoaderCases, lookup : Lookups] :
        /\ (in.ferr => in.ans.loader /\ in.ans.found /\ ~in.ans.deleted /\ ~in.ans.revokedAt.set)
        /\ (in.ferr \/ ~(\E c \in CTimes : Accepting(in.ans, c)) => in.lookup = "full")}

NotAsked == [asked |-> FALSE]

\* a receiver calls UnboxMessage on the delivered envelope
Unbox ==
    /\ wire.set
    /\ calls < MaxUnbox
    /\ calls' = calls + 1
    /\ \E convID \in ConvIDs, in \in UnboxInputs :
        \E r \in {UnboxMessage(wire.env, convID,
                                [err |-> in.ferr, CanonicalName |-> "", CryptKeys |-> tlfKeys],
                                in.ans, in.lookup, guard)} :
            /\ last' = [done |-> TRUE, convID |-> convID, ferr |-> in.ferr,
                        ans |-> IF r.asked THEN [asked |-> TRUE, a |-> in.ans] ELSE NotAsked,
                        before |-> guard, panic |-> r.panic, msg |-> r.msg, err |-> r.err]
            /\ guard' = r.g
            /\ valids' = IF ~r.panic /\ r.msg.state = "valid"
                         THEN valids \cup {[conv |-> convID,
                                            id |-> r.msg.ServerHeader.MessageID,
                                            hash |-> r.msg.BodyHash]}
                         ELSE valids
    /\ UNCHANGED <<tlfKeys, rng, sent, wire, boxes, batch, run>>

\* A receiver calls UnboxThread on a page of two messages: the delivered
\* envelope and the posted envelope under a server header of its own, in
\* either order.
Thread ==
    /\ wire.set
    /\ calls = 0
    /\ calls' = MaxUnbox
    /\ \E convID \in ConvIDs, in \in UnboxInputs, sh \in ServerHeaders, first \in BOOLEAN :
        \E other \in {[sent.boxed EXCEPT !.ServerHeader = sh]} :
        \E boxed \in {[Messages |-> IF first THEN <<wire.env, other>> ELSE <<other, wire.env>>,
                        Pagination |-> "page"]} :
        \E r \in {UnboxThread(boxed, convID,
                               [err |-> in.ferr, CanonicalName |-> "", CryptKeys |-> tlfKeys],
                               in.ans, in.lookup, guard)} :
            /\ batch' = [done |-> TRUE, boxed |-> boxed, convID |-> convID, ferr |-> in.ferr,
                         ans |-> in.ans, lookup |-> in.lookup, before |-> guard,
                         panic |-> r.panic, thread |-> r.thread, err |-> r.err]
            /\ guard' = r.g
    /\ UNCHANGED <<tlfKeys, rng, sent, wire, last, valids, boxes, run>>

\* --------------------------------------------------- concurrent unboxing
\* UnboxMessage up to the sender lookups: the key finder, unboxMessageWithKey
\* and the handling of its error.  Nothing here reads or writes the guard.
UnboxStart(boxed, convID, find, ans, lookup) ==
    IF find.err
    THEN [pc |-> "done", umwkr |-> NULL,
          out |-> [panic |-> FALSE, msg |-> NoMessage,
                   err |-> NewTransientUnboxingError("KeyFinder")]]
    ELSE IF MatchKeys(find.CryptKeys, boxed.KeyGeneration) = {}
    THEN [pc |-> "done", umwkr |-> NULL,
          out |-> [panic |-> FALSE, msg |-> NoMessage,
                   err |-> NewTransientUnboxingError("no key found for generation")]]
    ELSE CHOOSE st \in
            {IF umwkr.err.set
             THEN CHOOSE d \in
                    {[pc |-> "done", umwkr |-> NULL,
                      out |-> [panic |-> r.panic, msg |-> r.msg, err |-> r.err]] :
                        r \in {UnboxKeyed(boxed, convID, umwkr, lookup, EmptyGuard)}} : TRUE
             ELSE [pc |-> "body", umwkr |-> umwkr.res, out |-> NULL] :
                umwkr \in {unboxMessageWithKey(boxed, MatchKey(find.CryptKeys, boxed.KeyGeneration),
                                                ans)}} : TRUE

\* the valid record UnboxMessage returns after the guard accepted the message
ValidRecord(boxed, res, lookup) ==
    [state                 |-> "valid",
     ClientHeader          |-> res.messagePlaintext.ClientHeader,
     ServerHeader          |-> boxed.ServerHeader,
     MessageBody           |-> res.messagePlaintext.MessageBody,
     SenderUsername        |-> SenderInfo(lookup).username,
     SenderDeviceName      |-> SenderInfo(lookup).deviceName,
     SenderDeviceType      |-> SenderInfo(lookup).deviceType,
     BodyHash              |-> res.bodyHash,
     HeaderHash            |-> res.headerHash,
     HeaderSignature       |-> res.headerSignature,
     SenderDeviceRevokedAt |-> res.senderDeviceRevokedAt]

Procs == {1, 2}

\* the call of process p has returned with the error e
Returned(p, e) ==
    [run EXCEPT !.proc[p].pc = "done",
                !.proc[p].out = [panic |-> FALSE, msg |-> NoMessage, err |-> e],
                !.log = Append(@, p)]

\* Two goroutines call UnboxMessage on one Boxer at the same time: one on the
\* delivered envelope, the other on the same envelope under a message id of
\* its own, each in a conversation of its own choice.  Both run up to their
\* first call of the guard.
Begin ==
    /\ wire.set /\ ~run.on
    /\ calls = 0
    /\ calls' = MaxUnbox
    /\ wire.env.ServerHeader # NULL
    /\ \E conv \in [Procs -> ConvIDs], in \in UnboxInputs, id \in MsgIDs :
        \E find \in {[err |-> in.ferr, CanonicalName |-> "", CryptKeys |-> tlfKeys]} :
        \E boxed \in {<<wire.env, [wire.env EXCEPT !.ServerHeader.MessageID = id]>>} :
            run' = [on |-> TRUE, before |-> guard, ferr |-> in.ferr, ans |-> in.ans,
                    lookup |-> in.lookup, log |-> <<>>,
                    proc |-> [p \in Procs |->
                        CHOOSE pr \in
                            {[boxed |-> boxed[p], convID |-> conv[p], i |-> 1,
                              pc |-> st.pc, umwkr |-> st.umwkr, out |-> st.out] :
                                st \in {UnboxStart(boxed[p], conv[p], find, in.ans, in.lookup)}} :
                            TRUE]]
    /\ UNCHANGED <<tlfKeys, rng, sent, wire, guard, last, valids, boxes, batch>>

\* process p calls bodyHashChecker: one atomic check-and-record of the guard
CheckBody ==
    /\ run.on
    /\ \E p \in Procs :
        /\ run.proc[p].pc = "body"
        /\ \E r \in {bodyHashChecker(guard, run.proc[p].umwkr.bodyHash,
                                      run.proc[p].boxed.ServerHeader.MessageID,
                                      run.proc[p].convID)} :
            /\ guard' = r.g
            /\ run' = IF r.err # ""
                      THEN Returned(p, NewPermanentUnboxingError(r.err))
                      ELSE [run EXCEPT !.proc[p].pc = "hdr", !.log = Append(@, p)]
    /\ UNCHANGED <<tlfKeys, rng, sent, wire, last, valids, calls, boxes, batch>>

\* process p calls prevChecker for the header hash of its message
CheckHeader ==
    /\ run.on
    /\ \E p \in Procs :
        /\ run.proc[p].pc = "hdr"
        /\ \E r \in {prevChecker(guard, run.proc[p].boxed.ServerHeader.MessageID,
                                  run.proc[p].convID, run.proc[p].umwkr.headerHash)} :
            /\ guard' = r.g
            /\ run' = IF r.err # ""
                      THEN Returned(p, NewPermanentUnboxingError("<nil>"))
                      ELSE [run EXCEPT !.proc[p].pc = "prev", !.log = Append(@, p)]
    /\ UNCHANGED <<tlfKeys, rng, sent, wire, last, valids, calls, boxes, batch>>

\* process p calls prevChecker for its next prev-pointer, or leaves the loop
\* and returns the valid record
CheckPrev ==
    /\ run.on
    /\ \E p \in Procs :
        /\ run.proc[p].pc = "prev"
        /\ \E prev \in {run.proc[p].umwkr.messagePlaintext.ClientHeader.Prev} :
            IF run.proc[p].i > Len(prev)
            THEN /\ run' = [run EXCEPT
                               !.proc[p].pc = "done",
                               !.proc[p].out =
                                   [panic |-> FALSE, err |-> NoError,
                                    msg |-> ValidRecord(run.proc[p].boxed, run.proc[p].umwkr,
                                                        run.lookup)]]
                 /\ guard' = guard
            ELSE \E r \in {prevChecker(guard, prev[run.proc[p].i].Id, run.proc[p].convID,
                                        prev[run.proc[p].i].Hash)} :
                    /\ guard' = r.g
                    /\ run' = IF r.err # ""
                              THEN Returned(p, NewPermanentUnboxingError("<nil>"))
                              ELSE [run EXCEPT !.proc[p].i = @ + 1, !.log = Append(@, p)]
    /\ UNCHANGED <<tlfKeys, rng, sent, wire, last, valids, calls, boxes, batch>>

Next == Box \/ Deliver \/ Tamper \/ Unbox

Spec == Init /\ [][Next]_vars

\* BoxMessage alone, over every answer of its collaborators
NextBox == BoxAny

SpecBox == InitBox /\ [][NextBox]_vars

\* the receiver's first UnboxMessage call
UnboxFirst == calls = 0 /\ Unbox

\* BoxMessage over every answer of its collaborators and every key list, the
\* delivery by the server, and one UnboxMessage; nobody alters the envelope
NextRoundTrip == BoxAny \/ Deliver \/ UnboxFirst

SpecRoundTrip == InitBox /\ [][NextRoundTrip]_vars

\* the receiver's Replay Guard fails as a backend
SpecDown == InitDown /\ [][Next]_vars

\* the deliveries a holder of the TLF key can forge
NextForge == Box \/ Deliver \/ Forge \/ Unbox

SpecForge == Init /\ [][NextForge]_vars

\* every alteration of the delivery the model knows
NextAny == Box \/ Deliver \/ Tamper \/ Forge \/ Unbox

SpecAny == Init /\ [][NextAny]_vars

\* the receiver reads the delivered envelope in a thread page
NextThread == Box \/ Deliver \/ Tamper \/ Thread

SpecThread == Init /\ [][NextThread]_vars

\* two goroutines unbox the delivered message at the same time
NextConcurrent == Box \/ Deliver \/ Begin \/ CheckBody \/ CheckHeader \/ CheckPrev

SpecConcurrent == Init /\ [][NextConcurrent]_vars

TypeOK == rng \in 1..(2 * MaxBox + 1)

\* ================================================================== claims
\* the header the sender signed and sealed into the delivered envelope
SealedHeader == unmarshal(wire.env.HeaderCiphertext.E.pt).V1

\* ---------------------------------------------------------------------- C1
\* An UnboxMessage call on the envelope BoxMessage made of sent.msg, delivered
\* unaltered with a server header and supersededBy = 0, with the key finder
\* answering the same key list, an empty Replay Guard, and a loader that,
\* when asked, finds the signing KID valid for the sender at ctime.
RoundTripCase ==
    /\ last.done
    /\ wire.tamper = "none" /\ Honest(wire.env)
    /\ ~last.ferr
    /\ last.before = EmptyGuard
    /\ (last.ans.asked => Accepting(last.ans.a, wire.env.ServerHeader.Ctime))

\* the valid record carries the body of sent.msg and its client header, the
\* TLF name replaced by the canonical name
RoundTripResult ==
    /\ ~last.panic
    /\ last.msg.state = "valid"
    /\ last.msg.MessageBody = sent.msg.MessageBody
    /\ last.msg.ClientHeader =
           [sent.msg.ClientHeader EXCEPT !.TlfName = sent.find.CanonicalName]

PublicKeyListed ==
    sent.msg.ClientHeader.TlfPublic =>
        /\ MatchKeys(tlfKeys, PublicKeyGeneration) # {}
        /\ MatchKey(tlfKeys, PublicKeyGeneration) = publicCryptKey

\* the prev-pointers give one hash to each message id, and to the id the
\* server assigned no hash other than the envelope's header hash
PrevCoherent ==
    LET prev == sent.msg.ClientHeader.Prev
    IN  \A i \in 1..Len(prev) :
            /\ (prev[i].Id = wire.env.ServerHeader.MessageID
                    => prev[i].Hash = hashV1(wire.env.HeaderCiphertext.E))
            /\ \A j \in 1..Len(prev) :
                    prev[i].Id = prev[j].Id => prev[i].Hash = prev[j].Hash

UnboxOutcomes ==
    last.done /\ wire.env.ServerHeader # NULL =>
        /\ ~last.panic
        /\ \/ last.msg.state = "valid" /\ ~last.err.set
           \/ last.msg.state = "error" /\ ~last.err.set
           \/ last.msg.state = "none" /\ last.err.set /\ ~last.err.perm

\* ---------------------------------------------------------------------- C3
\* the valid record's signature verifies over the sealed header encoded with
\* headerSignature nulled, and the loader found the signing KID for the sender
ValidSigned ==
    /\ verify(marshal([SealedHeader EXCEPT !.HeaderSignature = NULL]),
              last.msg.HeaderSignature)
    /\ last.ans.asked
    /\ last.ans.a.loader /\ ~last.ans.a.err /\ last.ans.a.found

\* senderDeviceRevokedAt is null or later than ctime
RevokedLater ==
    \/ ~last.msg.SenderDeviceRevokedAt.set
    \/ last.msg.SenderDeviceRevokedAt.t > last.msg.ServerHeader.Ctime

\* C3 as stated: every valid record is signed by a KID found for the sender
\* and its senderDeviceRevokedAt is null or later than ctime.
ValidSenderAsStated ==
    last.done /\ ~last.panic /\ last.msg.state = "valid" =>
        ValidSigned /\ RevokedLater

\* C3: every valid record is signed by a KID found for the sender, and its
\* senderDeviceRevokedAt is null or later than ctime, or the loader reported
\* the sender deleted and senderDeviceRevokedAt is 0.
ValidSender ==
    last.done /\ ~last.panic /\ last.msg.state = "valid" =>
        /\ ValidSigned
        /\ \/ RevokedLater
           \/ /\ last.ans.a.deleted
              /\ last.msg.SenderDeviceRevokedAt = [set |-> TRUE, t |-> 0]

\* a valid record of a sender whose key was revoked after ctime
ValidSenderWitness ==
    /\ last.done /\ ~last.panic /\ last.msg.state = "valid"
    /\ last.msg.SenderDeviceRevokedAt.set
    /\ last.msg.SenderDeviceRevokedAt.t > last.msg.ServerHeader.Ctime

\* ---------------------------------------------------------------------- C4
\* The delivered envelope verifies: nothing in it was altered, it carries a
\* server header and a body or a supersededBy, the key finder answers with
\* the sealing key, and the loader accepts the sender key.
Verifiable ==
    /\ last.done
    /\ wire.tamper = "none"
    /\ wire.env.ServerHeader # NULL
    /\ ~(IsEmptyBytes(wire.env.BodyCiphertext.E) /\ wire.env.ServerHeader.SupersededBy = 0)
    /\ ~last.ferr
    /\ MatchKeys(tlfKeys, wire.env.KeyGeneration) # {}
    /\ MatchKey(tlfKeys, wire.env.KeyGeneration).Key = wire.env.HeaderCiphertext.E.k
    /\ last.ans.asked
    /\ Accepting(last.ans.a, wire.env.ServerHeader.Ctime)

\* a valid record of this conversation with the envelope's body hash was
\* returned under another message id
ReplayedBody ==
    \E v \in valids :
        /\ v.conv = last.convID
        /\ v.hash = SealedHeader.BodyHash
        /\ v.id # wire.env.ServerHeader.MessageID

\* C4: no two valid records of one conversation with the same body hash carry
\* different message ids; and the unbox of an envelope whose body hash was
\* returned valid under another id of the conversation is never valid and,
\* when the envelope verifies, returns the permanent error 'replayed body hash'.
ReplayDetected ==
    /\ \A a \in valids, b \in valids :
            a.conv = b.conv /\ a.hash = b.hash => a.id = b.id
    /\ (last.done /\ wire.env.ServerHeader # NULL /\ ReplayedBody =>
            /\ ~last.panic
            /\ last.msg.state # "valid"
            /\ (Verifiable =>
                    /\ last.msg = NoMessage
                    /\ last.err = NewPermanentUnboxingError("replayed body hash")))

\* the envelope returned valid as message 1 is delivered again as message 2
\* and refused
ReplayWitness ==
    /\ Verifiable /\ ReplayedBody
    /\ sent.boxed.BodyCiphertext = wire.env.BodyCiphertext
    /\ last.err.set /\ last.err.inner = "replayed body hash"

\* ---------------------------------------------------------------------- C5
\* the guard held, before the call, another header hash for the envelope's
\* message id or for the id of one of its prev-pointers
PrevConflict ==
    \E e \in last.before.prev :
        /\ e.conv = last.convID
        /\ \/ /\ e.id = wire.env.ServerHeader.MessageID
              /\ e.hash # hashV1(wire.env.HeaderCiphertext.E)
           \/ \E i \in 1..Len(SealedHeader.Prev) :
                 /\ SealedHeader.Prev[i].Id = e.id
                 /\ SealedHeader.Prev[i].Hash # e.hash

\* the guard held, before the call, the envelope's body hash under another id
BodyKnown ==
    \E e \in last.before.body :
        /\ e.conv = last.convID
        /\ e.hash = SealedHeader.BodyHash
        /\ e.id # wire.env.ServerHeader.MessageID

HighestKey(keys) ==
    keys[CHOOSE i \in 1..Len(keys) :
            \A j \in 1..Len(keys) : keys[j].KeyGeneration <= keys[i].KeyGeneration]

\* BoxMessage succeeded on a non-public plaintext
BoxedPrivate ==
    /\ sent.done /\ ~sent.err.set
    /\ ~sent.msg.ClientHeader.TlfPublic

\* C6 as stated: a non-public envelope is sealed, header and body, with the
\* key of highest generation of the key list, and names that generation.
BoxHighestGeneration ==
    BoxedPrivate =>
        /\ sent.boxed.KeyGeneration = HighestKey(tlfKeys).KeyGeneration
        /\ sent.boxed.BodyCiphertext.E.k = HighestKey(tlfKeys).Key
        /\ sent.boxed.HeaderCiphertext.E.k = HighestKey(tlfKeys).Key

\* ---------------------------------------------------------------------- C7
\* C7: BoxMessage on a public plaintext never fails for want of a key, and
\* the envelope it makes is sealed, header and body, with the all-zero key
\* and names generation 1, whatever the key list.
PublicSentinel ==
    sent.done /\ sent.msg.ClientHeader.TlfPublic =>
        IF sent.err.set
        THEN sent.err.msg # "no key found for tlf"
        ELSE /\ sent.boxed.KeyGeneration = 1
             /\ sent.boxed.BodyCiphertext.E.k = ZeroKey
             /\ sent.boxed.HeaderCiphertext.E.k = ZeroKey

\* a public plaintext boxed while the key list holds generation 2 only
PublicSentinelWitness ==
    /\ sent.done /\ sent.msg.ClientHeader.TlfPublic /\ ~sent.err.set
    /\ Len(tlfKeys) = 1 /\ tlfKeys[1].KeyGeneration = 2
    /\ sent.boxed.KeyGeneration = 1

\* ---------------------------------------------------------------------- C8
\* the key finder answers with the key the envelope was sealed with
KeyResolved ==
    /\ ~last.ferr
    /\ MatchKeys(tlfKeys, wire.env.KeyGeneration) # {}
    /\ MatchKey(tlfKeys, wire.env.KeyGeneration).Key = wire.env.HeaderCiphertext.E.k

\* C8 as stated: an envelope whose body is empty without supersededBy, or
\* present with supersededBy, is never returned as valid.
I1BothWays ==
    /\ last.done /\ wire.env.ServerHeader # NULL
    /\ IsEmptyBytes(wire.env.BodyCiphertext.E) = (wire.env.ServerHeader.SupersededBy = 0)
    => last.msg.state # "valid"

\* C8: an envelope with an empty body and supersededBy = 0 is never returned
\* as valid, and once a key of its generation is found the result is the error
\* record of the permanent error 'empty body and not superseded'.
EmptyBodyRefused ==
    /\ last.done /\ wire.env.ServerHeader # NULL
    /\ IsEmptyBytes(wire.env.BodyCiphertext.E)
    /\ wire.env.ServerHeader.SupersededBy = 0
    => /\ ~last.panic
       /\ last.msg.state # "valid"
       /\ (~last.ferr /\ MatchKeys(tlfKeys, wire.env.KeyGeneration) # {} =>
               /\ last.msg.state = "error"
               /\ last.msg.ErrMsg = "empty body and not superseded in MessageBoxed"
               /\ ~last.err.set)

\* the server dropped the body of a message that is not superseded, and the
\* receiver got the error record
EmptyBodyWitness ==
    /\ last.done /\ wire.env.ServerHeader # NULL
    /\ IsEmptyBytes(wire.env.BodyCiphertext.E)
    /\ wire.env.ServerHeader.SupersededBy = 0
    /\ last.msg.state = "error"
    /\ last.msg.ErrMsg = "empty body and not superseded in MessageBoxed"

\* ---------------------------------------------------------------------- C9
BodyTampered == wire.set /\ wire.tamper \in {"body.flip", "body.reseal"}

\* C9 as stated: after a change of bodyCiphertext.bytes, UnboxMessage with
\* the right key yields the permanent error BodyHashInvalid.
BodyHashInvalidAsStated ==
    last.done /\ BodyTampered /\ KeyResolved =>
        /\ last.msg.state = "error"
        /\ last.msg.ErrMsg = "BodyHashInvalid"

\* C9: after a change of bodyCiphertext.bytes, UnboxMessage never returns a
\* valid record, and with the right key it returns the error record of a
\* permanent error: DecryptOpenError when the bytes no longer authenticate,
\* BodyHashInvalid when they are another body sealed under the same key and
\* nonce.
BodyBinding ==
    last.done /\ BodyTampered =>
        /\ ~last.panic
        /\ last.msg.state # "valid"
        /\ (KeyResolved =>
                /\ last.msg.state = "error"
                /\ ~last.err.set
                /\ last.msg.ErrMsg = IF wire.tamper = "body.flip"
                                     THEN "DecryptOpenError"
                                     ELSE "BodyHashInvalid")

\* a body sealed anew under the same key and nonce is refused by its hash
BodyBindingWitness ==
    /\ last.done /\ wire.tamper = "body.reseal" /\ KeyResolved
    /\ last.msg.state = "error"
    /\ last.msg.ErrMsg = "BodyHashInvalid"

\* --------------------------------------------------------------------- C10
HeaderTampered ==
    wire.set /\ wire.tamper \in {"hdr.V", "hdr.E.flip", "hdr.N.id", "hdr.N.len"}

\* C10 as stated, its last part: after a change of a field of
\* headerCiphertext, UnboxMessage does not return a valid record.
HeaderTamperRefused ==
    last.done /\ HeaderTampered => last.msg.state # "valid"

\* --------------------------------------------------------------------- C11
\* C11 as stated: the unbox of an envelope without server header, with a key
\* of its generation resolved, completes and returns the error record of a
\* permanent failure with a nil error.
NilServerHeaderRejected ==
    /\ last.done /\ wire.env.ServerHeader = NULL
    /\ ~last.ferr /\ MatchKeys(tlfKeys, wire.env.KeyGeneration) # {}
    => /\ ~last.panic
       /\ last.msg.state = "error"
       /\ ~last.err.set

\* --------------------------------------------------------------------- C12
\* the key finder failed, or answered without a key of the envelope's
\* generation
KeyUnresolved ==
    last.ferr \/ MatchKeys(tlfKeys, wire.env.KeyGeneration) = {}

\* C12: when the key finder fails or has no key of the envelope's generation,
\* UnboxMessage returns no record and a transient error that names the key
\* failure, whatever the envelope holds; the user loader is not asked and the
\* Replay Guard is left as it was.
KeyFailureTransient ==
    last.done /\ KeyUnresolved =>
        /\ ~last.panic
        /\ last.msg = NoMessage
        /\ last.err.set /\ ~last.err.perm
        /\ last.err.inner = IF last.ferr THEN "KeyFinder" ELSE "no key found for generation"
        /\ ~last.ans.asked
        /\ guard = last.before

\* an altered envelope whose generation the key list lacks
KeyFailureWitness ==
    /\ last.done /\ ~last.ferr
    /\ MatchKeys(tlfKeys, wire.env.KeyGeneration) = {}
    /\ wire.tamper # "none"
    /\ last.err.set /\ ~last.err.perm

\* --------------------------------------------------------------------- C13
\* The delivered envelope verifies up to the sender key check, and the loader
\* found the signing key of a sender who is not deleted.
SignerFound ==
    /\ last.done
    /\ wire.tamper = "none"
    /\ wire.env.ServerHeader # NULL
    /\ ~(IsEmptyBytes(wire.env.BodyCiphertext.E) /\ wire.env.ServerHeader.SupersededBy = 0)
    /\ ~last.ferr
    /\ MatchKeys(tlfKeys, wire.env.KeyGeneration) # {}
    /\ MatchKey(tlfKeys, wire.env.KeyGeneration).Key = wire.env.HeaderCiphertext.E.k
    /\ last.ans.asked
    /\ last.ans.a.loader /\ ~last.ans.a.err /\ last.ans.a.found /\ ~last.ans.a.deleted

\* the error record of the permanent NoKey error
NoKeyRecord ==
    /\ ~last.panic
    /\ last.msg.state = "error"
    /\ last.msg.ErrMsg = "NoKeyError: key invalid for sender at message ctime"
    /\ ~last.err.set

\* the sender key is accepted: the result is the valid record with
\* senderDeviceRevokedAt = r, unless the Replay Guard refuses the message
ValidRevokedAt(r) ==
    /\ ~last.panic
    /\ \/ /\ last.msg.state = "valid"
          /\ last.msg.SenderDeviceRevokedAt = r
          /\ ~last.err.set
       \/ /\ last.msg = NoMessage
          /\ last.err.set /\ last.err.perm
          /\ (BodyKnown \/ PrevConflict \/ ~PrevCoherent)

\* C13 as stated: a revocation time T at or before ctime yields the permanent
\* NoKey error, T after ctime the valid record with senderDeviceRevokedAt = T,
\* no revocation time the valid record with senderDeviceRevokedAt = null.
RevokedSignerAsStated ==
    SignerFound =>
        LET T == last.ans.a.revokedAt
        IN  IF ~T.set THEN ValidRevokedAt(NoTime)
            ELSE IF T.t > wire.env.ServerHeader.Ctime THEN ValidRevokedAt(T)
            ELSE NoKeyRecord

\* C13: a revocation time T other than zero and at or before ctime yields the
\* permanent NoKey error, T after ctime the valid record with
\* senderDeviceRevokedAt = T, no revocation time the valid record with
\* senderDeviceRevokedAt = null; a zero revocation time yields the permanent
\* error 'zero clock time on expired key'.
RevokedSigner ==
    SignerFound =>
        LET T == last.ans.a.revokedAt
        IN  IF ~T.set THEN ValidRevokedAt(NoTime)
            ELSE IF T.t > wire.env.ServerHeader.Ctime THEN ValidRevokedAt(T)
            ELSE IF T.t # 0 THEN NoKeyRecord
            ELSE /\ ~last.panic
                 /\ last.msg.state = "error"
                 /\ last.msg.ErrMsg = "zero clock time on expired key"
                 /\ ~last.err.set

\* a key revoked at the very ctime of the message is refused
RevokedSignerWitness ==
    /\ SignerFound
    /\ last.ans.a.revokedAt = [set |-> TRUE, t |-> wire.env.ServerHeader.Ctime]
    /\ NoKeyRecord

\* --------------------------------------------------------------------- C14
\* BoxMessage reached the Merkle fetch: the TLF name given is not blank and
\* the key finder answered
MerkleFetched ==
    /\ sent.done
    /\ sent.msg.ClientHeader.TlfName # ""
    /\ ~sent.find.err

\* the Merkle client is missing or fails
MerkleFailing == sent.merkle.client \in {"none", "error"}

\* the key finder named the TLF and a key is chosen, and the signing key signs
BoxableOtherwise ==
    /\ sent.find.CanonicalName # ""
    /\ (sent.msg.ClientHeader.TlfPublic \/ Len(tlfKeys) > 0)
    /\ sent.kp.canSign

\* a null root is no failure: the plaintext is boxed and the envelope's client
\* header carries the null root
NullRootBoxed ==
    MerkleFetched /\ sent.merkle = [client |-> "ok", root |-> NULL] =>
        /\ (sent.err.set => sent.err.msg \notin {"no MerkleClient available", "LastRootInfo failed"})
        /\ (BoxableOtherwise =>
                /\ ~sent.err.set
                /\ sent.boxed.ClientHeader.MerkleRoot = NULL)

\* C14 as stated: when the Merkle client is missing or fails, BoxMessage
\* returns a permanent error carrying the root error; a null root is no
\* failure and the envelope's client header carries it.
MerkleFailurePermanent ==
    /\ (MerkleFetched /\ MerkleFailing =>
            /\ sent.err.set /\ sent.err.perm
            /\ sent.err.msg = latestMerkleRoot(sent.merkle).err
            /\ sent.boxed = NULL)
    /\ NullRootBoxed

\* C14: when the Merkle client is missing or fails, BoxMessage returns a
\* non-permanent error carrying the root error and no envelope; a null root
\* is no failure and the envelope's client header carries it.
MerkleFailureRetriable ==
    /\ (MerkleFetched /\ MerkleFailing =>
            /\ sent.err.set /\ ~sent.err.perm
            /\ sent.err.msg = latestMerkleRoot(sent.merkle).err
            /\ sent.boxed = NULL)
    /\ NullRootBoxed

\* an envelope boxed with no saved Merkle root
MerkleWitness ==
    /\ MerkleFetched /\ sent.merkle = [client |-> "ok", root |-> NULL]
    /\ ~sent.err.set
    /\ sent.boxed.ClientHeader.MerkleRoot = NULL

\* --------------------------------------------------------------------- C15
\* C15 as stated: whenever the key finder answers with an empty canonical
\* name, BoxMessage returns the permanent error of the blank name received
\* and no envelope, whatever the key list and the Merkle client.
BlankCanonicalFirst ==
    MerkleFetched /\ sent.find.CanonicalName = "" =>
        /\ sent.err = BoxingError("blank TLF name received", TRUE)
        /\ sent.boxed = NULL

PostedHeader == unmarshal(sent.boxed.HeaderCiphertext.E.pt).V1

\* C17: the header of every envelope BoxMessage makes holds the hash of the
\* envelope's body ciphertext bytes, and every valid record returned for an
\* envelope with a body holds the hash of that envelope's body ciphertext
\* bytes as BodyHash and the hash of its header ciphertext bytes as
\* HeaderHash.
BodyHashBound ==
    /\ (sent.done /\ ~sent.err.set =>
            PostedHeader.BodyHash = hashV1(sent.boxed.BodyCiphertext.E))
    /\ (/\ last.done /\ ~last.panic /\ last.msg.state = "valid"
        /\ ~IsEmptyBytes(wire.env.BodyCiphertext.E)
        => /\ last.msg.BodyHash = hashV1(wire.env.BodyCiphertext.E)
           /\ last.msg.HeaderHash = hashV1(wire.env.HeaderCiphertext.E)
           /\ SealedHeader.BodyHash = hashV1(wire.env.BodyCiphertext.E))

\* a valid record of an envelope with a body
BodyHashWitness ==
    /\ last.done /\ ~last.panic /\ last.msg.state = "valid"
    /\ ~IsEmptyBytes(wire.env.BodyCiphertext.E)
    /\ last.msg.BodyHash = PostedHeader.BodyHash

\* --------------------------------------------------------------------- C18
\* the delivered envelope has no body and names a superseding message, the
\* key finder answers with its key, and the sealed header carries a signature
SupersededCase ==
    /\ last.done
    /\ wire.env.ServerHeader # NULL
    /\ IsEmptyBytes(wire.env.BodyCiphertext.E)
    /\ wire.env.ServerHeader.SupersededBy # 0
    /\ KeyResolved
    /\ wire.tamper # "hdr.nosig"

\* the Replay Guard has something against the envelope
GuardRefuses == BodyKnown \/ PrevConflict \/ ~PrevCoherent

\* C18: an envelope without body that names a superseding message is unboxed
\* as a valid record with an empty message body and the sealed header's body
\* hash, without comparing that hash with the body; but a header whose
\* signature does not verify yields the BadSig error record, a sender key the
\* loader does not accept yields no valid record, and so does an envelope the
\* Replay Guard refuses.
SupersededBody ==
    SupersededCase =>
        /\ ~last.panic
        /\ (wire.tamper = "hdr.resign" =>
                last.msg.state = "error" /\ last.msg.ErrMsg = "BadSigError")
        /\ (wire.tamper = "none" =>
                /\ last.ans.asked
                /\ IF Accepting(last.ans.a, wire.env.ServerHeader.Ctime) /\ ~GuardRefuses
                   THEN /\ last.msg.state = "valid"
                        /\ last.msg.MessageBody = EmptyMessageBody
                        /\ last.msg.BodyHash = SealedHeader.BodyHash
                        /\ last.msg.BodyHash # hashV1(wire.env.BodyCiphertext.E)
                   ELSE last.msg.state # "valid")

\* a superseded envelope returned valid with an empty body
SupersededWitness ==
    /\ SupersededCase /\ wire.tamper = "none"
    /\ last.msg.state = "valid"
    /\ last.msg.MessageBody = EmptyMessageBody
    /\ sent.msg.MessageBody # EmptyMessageBody

\* --------------------------------------------------------------------- C19
\* the header plaintext the delivered envelope opens to
OpenedHeader == unmarshal(wire.env.HeaderCiphertext.E.pt)

\* The delivered envelope is opened with its key and its header plaintext has
\* a version other than V1.
OtherVersionCase ==
    /\ last.done
    /\ wire.env.ServerHeader # NULL
    /\ ~(IsEmptyBytes(wire.env.BodyCiphertext.E) /\ wire.env.ServerHeader.SupersededBy = 0)
    /\ KeyResolved
    /\ HeaderVersion(OpenedHeader).err = ""
    /\ OpenedHeader.version # 1

\* the error unboxMessageWithKey returns for the delivered envelope, whatever
\* the loader would answer
VersionErrors ==
    {unboxMessageWithKey(wire.env, MatchKey(tlfKeys, wire.env.KeyGeneration), a).err :
        a \in LoaderCases}

\* C19: an envelope whose header plaintext has a version other than V1 yields
\* the error record of the permanent HeaderVersionError and a nil error, and
\* the user loader is not asked; the error carries the critical flag of the
\* variant for V2..V10 and is critical for a version outside V1..V10.
HeaderVersionRefused ==
    OtherVersionCase =>
        /\ ~last.panic
        /\ last.msg.state = "error"
        /\ last.msg.ErrMsg = "HeaderVersionError"
        /\ ~last.err.set
        /\ ~last.ans.asked
        /\ VersionErrors =
              {[set |-> TRUE, inner |-> "HeaderVersionError", perm |-> TRUE, panic |-> FALSE,
                crit |-> IF OpenedHeader.version \in 2..10 THEN OpenedHeader.crit ELSE TRUE]}

\* a header of version V10 that is not critical is refused
HeaderVersionWitness ==
    /\ OtherVersionCase
    /\ OpenedHeader = [version |-> 10, crit |-> FALSE]
    /\ last.msg.state = "error"

\* --------------------------------------------------------------------- C20
\* C20 as stated: when the prev checker refuses the header hash or a
\* prev-pointer of an envelope that verifies and is no replay, the error of
\* UnboxMessage is the prev checker's, not the nil replay error.
PrevErrorReferenced ==
    Verifiable /\ ~BodyKnown /\ PrevConflict =>
        /\ last.err.set
        /\ last.err.inner = "inconsistent header/prev hash"

\* --------------------------------------------------------------------- C21
\* no record and a transient error
TransientOutcome ==
    /\ ~last.panic
    /\ last.msg = NoMessage
    /\ last.err.set /\ ~last.err.perm

\* C21 as stated: a failure the key finder, the user loader's CheckKIDForUID
\* or a checker of the Replay Guard reports as a backend surfaces from
\* UnboxMessage as a transient error and no record.
BackendFailureTransient ==
    /\ (last.done /\ last.ferr => TransientOutcome)
    /\ (last.done /\ last.ans.asked /\ last.ans.a.err => TransientOutcome)
    /\ (Verifiable /\ "down" \in DOMAIN last.before => TransientOutcome)

\* --------------------------------------------------------------------- C22
\* the delivered envelope is opened with its key
OpenedCase ==
    /\ last.done
    /\ wire.env.ServerHeader # NULL
    /\ ~(IsEmptyBytes(wire.env.BodyCiphertext.E) /\ wire.env.ServerHeader.SupersededBy = 0)
    /\ KeyResolved

\* the error record of the permanent error e, made without asking the loader
RefusedUnasked(e) ==
    /\ ~last.panic
    /\ last.msg.state = "error" /\ last.msg.ErrMsg = e
    /\ ~last.err.set
    /\ ~last.ans.asked

\* C22: an envelope whose header has both a body hash other than the body's
\* and a signature that does not verify yields BodyHashInvalid; an envelope
\* whose signature alone does not verify yields BadSig; in both cases
\* whatever the user loader would answer, and the loader is not asked.
VerificationOrder ==
    /\ (OpenedCase /\ wire.tamper = "hdr.resign+body" => RefusedUnasked("BodyHashInvalid"))
    /\ (OpenedCase /\ wire.tamper = "hdr.resign" => RefusedUnasked("BadSigError"))

\* a header with a wrong body hash and a bad signature is refused for the hash
VerificationOrderWitness ==
    /\ OpenedCase /\ wire.tamper = "hdr.resign+body"
    /\ SealedHeader.BodyHash # hashV1(wire.env.BodyCiphertext.E)
    /\ ~verify(marshal([SealedHeader EXCEPT !.HeaderSignature = NULL]),
               SealedHeader.HeaderSignature)
    /\ last.msg.state = "error" /\ last.msg.ErrMsg = "BodyHashInvalid"

\* --------------------------------------------------------------------- C23
\* The delivered envelope verifies up to the sender key check, and the loader
\* found the signing key and reports the sender deleted.
SenderDeleted ==
    /\ last.done
    /\ wire.tamper = "none"
    /\ wire.env.ServerHeader # NULL
    /\ ~(IsEmptyBytes(wire.env.BodyCiphertext.E) /\ wire.env.ServerHeader.SupersededBy = 0)
    /\ KeyResolved
    /\ last.ans.asked
    /\ last.ans.a.loader /\ ~last.ans.a.err /\ last.ans.a.found /\ last.ans.a.deleted

\* the loader's answers that report the sender deleted
DeletedAnswers ==
    {a \in LoaderCases : a.loader /\ ~a.err /\ a.found /\ a.deleted}

\* C23: when the loader reports the sender deleted, ValidSenderKey accepts the
\* key as revoked at time 0 for every ctime and every revocation time
\* reported, and the message is returned valid with senderDeviceRevokedAt = 0
\* (unless the Replay Guard refuses it).
DeletedSenderValid ==
    /\ \A a \in DeletedAnswers, c \in 0..(MaxTime + 1) :
            ValidSenderKey(a, "uid1", "kid1", c) =
                [found |-> TRUE, validAtCTime |-> TRUE,
                 revoked |-> [set |-> TRUE, t |-> 0], err |-> NoError]
    /\ (SenderDeleted => ValidRevokedAt([set |-> TRUE, t |-> 0]))

\* a deleted sender whose key was also revoked before ctime: the record is valid
DeletedSenderWitness ==
    /\ SenderDeleted
    /\ last.ans.a.revokedAt.set
    /\ last.ans.a.revokedAt.t < wire.env.ServerHeader.Ctime
    /\ last.msg.state = "valid"
    /\ last.msg.SenderDeviceRevokedAt = [set |-> TRUE, t |-> 0]

\* --------------------------------------------------------------------- C24
\* the results of the last call's UnboxMessage on the same envelope, guard
\* and collaborator answers, for each outcome of the sender lookups
LookupOutcomes ==
    {[lookup |-> l,
      out |-> UnboxMessage(wire.env, last.convID,
                           [err |-> last.ferr, CanonicalName |-> "", CryptKeys |-> tlfKeys],
                           last.ans.a, l, last.before)] : l \in Lookups}

\* a record without its sender name and device fields
Unnamed(msg) ==
    IF msg.state = "valid"
    THEN [msg EXCEPT !.SenderUsername = "", !.SenderDeviceName = "", !.SenderDeviceType = ""]
    ELSE msg

\* C24: whatever the sender lookups answer, UnboxMessage returns the same
\* error, leaves the same Replay Guard and returns the same record but for the
\* sender's names: the full lookup's names, the username alone when only the
\* username lookup succeeds, and empty names when both fail.
LookupIndependent ==
    last.done /\ last.ans.asked =>
        \A o \in LookupOutcomes :
            /\ o.out.panic = last.panic
            /\ o.out.err = last.err
            /\ o.out.g = guard
            /\ Unnamed(o.out.msg) = Unnamed(last.msg)
            /\ (o.out.msg.state = "valid" =>
                    /\ o.out.msg.SenderUsername = IF o.lookup = "none" THEN "" ELSE "alice"
                    /\ o.out.msg.SenderDeviceName = IF o.lookup = "full" THEN "phone" ELSE ""
                    /\ o.out.msg.SenderDeviceType = IF o.lookup = "full" THEN "mobile" ELSE "")

\* a valid record returned while both sender lookups failed
LookupWitness ==
    /\ last.done /\ ~last.panic
    /\ last.msg.state = "valid"
    /\ last.msg.SenderUsername = "" /\ last.msg.SenderDeviceName = ""

\* --------------------------------------------------------------------- C25
\* the key finder's answer to the calls of the batch
BatchFind == [err |-> batch.ferr, CanonicalName |-> "", CryptKeys |-> tlfKeys]

\* UnboxMessage on the first envelope of the page, from the guard as it was
BatchFirst ==
    UnboxMessage(batch.boxed.Messages[1], batch.convID, BatchFind, batch.ans,
                 batch.lookup, batch.before)

\* UnboxMessage on the second envelope, from the guard the first call left
BatchSecond ==
    UnboxMessage(batch.boxed.Messages[2], batch.convID, BatchFind, batch.ans,
                 batch.lookup, BatchFirst.g)

\* what UnboxMessages returns for the page
BatchUnboxed ==
    UnboxMessages(batch.boxed.Messages, batch.convID, BatchFind, batch.ans,
                  batch.lookup, batch.before)

Failed(r) == r.panic \/ r.err.set

\* C25: UnboxMessages handles the page in order, each message from the guard
\* its predecessor left; without error its output is the results in input
\* order, with an error its output is the results before the failing message
\* and its error that message's.  UnboxThread returns these records with the
\* page's pagination, or the empty thread view with the error.
BatchSerial ==
    batch.done =>
        /\ BatchUnboxed.unboxed =
              IF Failed(BatchFirst) THEN <<>>
              ELSE IF Failed(BatchSecond) THEN <<BatchFirst.msg>>
              ELSE <<BatchFirst.msg, BatchSecond.msg>>
        /\ BatchUnboxed.err =
              IF Failed(BatchFirst) THEN BatchFirst.err
              ELSE IF Failed(BatchSecond) THEN BatchSecond.err
              ELSE NoError
        /\ guard = IF Failed(BatchFirst) THEN BatchFirst.g ELSE BatchSecond.g
        /\ batch.err = BatchUnboxed.err
        /\ batch.thread =
              IF Failed(BatchUnboxed) THEN NoThread
              ELSE [Messages |-> BatchUnboxed.unboxed, Pagination |-> batch.boxed.Pagination]

\* the posted envelope twice in a page under two message ids: the first is
\* returned valid, the second is refused as a replay of the first
BatchSerialWitness ==
    /\ batch.done /\ batch.before = EmptyGuard
    /\ batch.boxed.Messages[1].ServerHeader # NULL
    /\ batch.boxed.Messages[2].ServerHeader # NULL
    /\ batch.boxed.Messages[1].ServerHeader.MessageID # batch.boxed.Messages[2].ServerHeader.MessageID
    /\ batch.err.set /\ batch.err.inner = "replayed body hash"
    /\ \E e \in guard.body : e.id = batch.boxed.Messages[1].ServerHeader.MessageID

\* --------------------------------------------------------------------- C26
\* the body plaintext the delivered envelope opens to
OpenedBody == unmarshal(wire.env.BodyCiphertext.E.pt)

\* the errors unboxMessageWithKey returns for the delivered envelope with the
\* loader's answers that accept the sender key
BodyVersionErrors ==
    {unboxMessageWithKey(wire.env, MatchKey(tlfKeys, wire.env.KeyGeneration), a).err :
        a \in {b \in LoaderCases : Accepting(b, wire.env.ServerHeader.Ctime)}}

\* C26: an envelope whose body plaintext has a version other than V1 yields
\* the error record of the permanent BodyVersionError, which carries the
\* critical flag of the variant for V2..V10 and is critical for a version
\* outside V1..V10, when its header verifies; with a header that holds
\* another body hash it yields BodyHashInvalid, with a signature that does
\* not verify BadSig, and with a sender key the loader does not accept the
\* error of the sender key check.
BodyVersionRefused ==
    /\ (OpenedCase /\ wire.tamper = "body.version/hash" => RefusedUnasked("BodyHashInvalid"))
    /\ (OpenedCase /\ wire.tamper = "body.version/sig" => RefusedUnasked("BadSigError"))
    /\ (OpenedCase /\ wire.tamper = "body.version" =>
            /\ ~last.panic
            /\ last.ans.asked
            /\ guard = last.before
            /\ IF Accepting(last.ans.a, wire.env.ServerHeader.Ctime)
               THEN /\ last.msg.state = "error" /\ last.msg.ErrMsg = "BodyVersionError"
                    /\ ~last.err.set
                    /\ BodyVersionErrors =
                          {[set |-> TRUE, inner |-> "BodyVersionError", perm |-> TRUE,
                            panic |-> FALSE,
                            crit |-> IF OpenedBody.version \in 2..10
                                     THEN OpenedBody.crit ELSE TRUE]}
               ELSE /\ last.msg.state # "valid"
                    /\ (last.msg.state = "error" =>
                            last.msg.ErrMsg \in {"NoKeyError: sender key not found",
                                                 "NoKeyError: key invalid for sender at message ctime",
                                                 "zero clock time on expired key"})
                    /\ (last.msg.state = "none" => last.err.set /\ ~last.err.perm))

\* a signed envelope with a body of version V2 that is not critical
BodyVersionWitness ==
    /\ OpenedCase /\ wire.tamper = "body.version"
    /\ OpenedBody = [version |-> 2, crit |-> FALSE]
    /\ last.msg.state = "error" /\ last.msg.ErrMsg = "BodyVersionError"

\* --------------------------------------------------------------------- C27
\* the call ended before the Replay Guard: a panic, a transient error or an
\* error record
EndedUnverified ==
    \/ last.panic
    \/ last.msg.state = "error"
    \/ last.msg = NoMessage /\ last.err.set /\ ~last.err.perm

\* key resolution, decryption, decoding, version dispatch, body-hash check,
\* signature check and sender key check all succeed on the delivered envelope
AllVerified ==
    /\ wire.env.ServerHeader # NULL
    /\ KeyResolved
    /\ open(wire.env.HeaderCiphertext, MatchKey(tlfKeys, wire.env.KeyGeneration)).err = ""
    /\ HeaderVersion(OpenedHeader).err = "" /\ OpenedHeader.version = 1
    /\ SealedHeader.HeaderSignature # NULL
    /\ verify(marshal([SealedHeader EXCEPT !.HeaderSignature = NULL]),
              SealedHeader.HeaderSignature)
    /\ IF IsEmptyBytes(wire.env.BodyCiphertext.E)
       THEN wire.env.ServerHeader.SupersededBy # 0
       ELSE /\ open(wire.env.BodyCiphertext, MatchKey(tlfKeys, wire.env.KeyGeneration)).err = ""
            /\ BodyVersion(OpenedBody).err = "" /\ OpenedBody.version = 1
            /\ SealedHeader.BodyHash = hashV1(wire.env.BodyCiphertext.E)
    /\ last.ans.asked
    /\ Accepting(last.ans.a, wire.env.ServerHeader.Ctime)

\* C27: an UnboxMessage call that ends in a panic, a transient error or an
\* error record leaves the Replay Guard as it was; and a call changes the
\* guard, or is refused by it, only for an envelope on which key resolution,
\* decryption, decoding, version dispatch, body-hash check, signature check
\* and sender key check all succeeded.
GuardAfterVerification ==
    last.done =>
        /\ (EndedUnverified => guard = last.before)
        /\ (guard # last.before \/ ~EndedUnverified => AllVerified)

\* an envelope whose body a key holder replaced is refused and the guard,
\* which held entries, is as it was
GuardUntouchedWitness ==
    /\ last.done /\ wire.tamper = "body.reseal"
    /\ last.msg.state = "error"
    /\ guard = last.before /\ guard.body # {}

\* --------------------------------------------------------------------- C28
\* the call ended at the header-hash or prev-pointer stage
PrevStageError ==
    /\ last.done /\ ~last.panic
    /\ last.msg = NoMessage
    /\ last.err = NewPermanentUnboxingError("<nil>")

\* every (bodyHash, convID) entry of the guard is of a message returned valid
BodyEntriesValid ==
    \A e \in guard.body :
        \E v \in valids : v.conv = e.conv /\ v.hash = e.hash /\ v.id = e.id

\* C28: an UnboxMessage call that ends in an error at the header-hash or
\* prev-pointer stage leaves the Replay Guard as it was before the call, and
\* every body-hash entry of the guard is of a message that was returned valid.
GuardHoldsValidOnly ==
    /\ (PrevStageError => guard = last.before)
    /\ BodyEntriesValid

\* --------------------------------------------------------------------- C29
\* the delivered envelope opens under the conversation key to a V1 header
\* whose headerSignature is null
UnsignedCase ==
    /\ last.done /\ wire.tamper = "hdr.nosig"
    /\ KeyResolved
    /\ OpenedHeader.version = 1
    /\ SealedHeader.HeaderSignature = NULL

\* C29: the unbox of an envelope that opens under the conversation key to a
\* V1 header without headerSignature completes without a panic and returns a
\* permanent error record, never a valid record.
UnsignedRejected ==
    UnsignedCase =>
        /\ ~last.panic
        /\ last.msg.state = "error"
        /\ ~last.err.set

\* --------------------------------------------------------------------- C30
\* a client header that differs from h in one field other than tlfName and
\* tlfPublic
Cleartexts(h) ==
    {[h EXCEPT !.Sender = "uid2"],
     [h EXCEPT !.SenderDevice = "dev2"],
     [h EXCEPT !.Prev = Append(@, [Id |-> 1, Hash |-> BogusHash])],
     [h EXCEPT !.MessageType = "EDIT"],
     [h EXCEPT !.Conv = @ + 1],
     [h EXCEPT !.MerkleRoot = IF @ = NULL THEN [null |-> FALSE, seqno |-> 8] ELSE NULL]}

\* an answer of the user loader for the calls that never ask for one
SomeAnswer == CHOOSE a \in LoaderCases : TRUE

\* the results of the last call's UnboxMessage, from the same guard and
\* collaborator answers, on the envelopes that differ from the delivered one
\* in the cleartext client header
CleartextOutcomes ==
    {[h |-> h,
      out |-> UnboxMessage([wire.env EXCEPT !.ClientHeader = h], last.convID,
                           [err |-> last.ferr, CanonicalName |-> "", CryptKeys |-> tlfKeys],
                           IF last.ans.asked THEN last.ans.a ELSE SomeAnswer,
                           "full", last.before)] : h \in Cleartexts(wire.env.ClientHeader)}

\* an error record without its message type
Typeless(msg) ==
    IF msg.state = "error" THEN [msg EXCEPT !.MessageType = ""] ELSE msg

\* a valid record's client header is the sealed header's, without Merkle root
FromSealedHeader ==
    ~last.panic /\ last.msg.state = "valid" =>
        last.msg.ClientHeader =
            [Conv         |-> SealedHeader.Conv,
             TlfName      |-> SealedHeader.TlfName,
             TlfPublic    |-> SealedHeader.TlfPublic,
             MessageType  |-> SealedHeader.MessageType,
             Prev         |-> SealedHeader.Prev,
             Sender       |-> SealedHeader.Sender,
             SenderDevice |-> SealedHeader.SenderDevice,
             OutboxInfo   |-> SealedHeader.OutboxInfo,
             OutboxID     |-> SealedHeader.OutboxID,
             MerkleRoot   |-> NULL]

\* C30 as stated: UnboxMessage returns the same outcome on two envelopes that
\* differ only in a field of the cleartext client header other than tlfName
\* and tlfPublic, and a valid record's client header is the sealed header's.
CleartextIgnoredAsStated ==
    last.done =>
        /\ \A o \in CleartextOutcomes :
                /\ o.out.panic = last.panic
                /\ o.out.err = last.err
                /\ o.out.g = guard
                /\ Unnamed(o.out.msg) = Unnamed(last.msg)
        /\ FromSealedHeader

\* C30: UnboxMessage returns, on two envelopes that differ only in a field of
\* the cleartext client header other than tlfName and tlfPublic, the same
\* error, the same Replay Guard and the same record, except that an error
\* record carries the message type of the cleartext client header; a valid
\* record's client header is the sealed header's, with no Merkle root.
CleartextIgnored ==
    last.done =>
        /\ \A o \in CleartextOutcomes :
                /\ o.out.panic = last.panic
                /\ o.out.err = last.err
                /\ o.out.g = guard
                /\ Typeless(Unnamed(o.out.msg)) = Typeless(Unnamed(last.msg))
                /\ (o.out.msg.state = "error" => o.out.msg.MessageType = o.h.MessageType)
        /\ FromSealedHeader

\* a valid record without Merkle root for an envelope whose cleartext client
\* header carries one
CleartextWitness ==
    /\ last.done /\ ~last.panic
    /\ last.msg.state = "valid"
    /\ wire.env.ClientHeader.MerkleRoot # NULL
    /\ last.msg.ClientHeader.MerkleRoot = NULL

\* --------------------------------------------------------------------- C31
\* both concurrent calls have returned
BothReturned == run.on /\ \A p \in Procs : run.proc[p].pc = "done"

\* the two calls are on one conversation, for envelopes with the same sealed
\* body hash and different message ids
ReplayRace ==
    /\ BothReturned
    /\ run.proc[1].convID = run.proc[2].convID
    /\ run.proc[1].boxed.HeaderCiphertext = run.proc[2].boxed.HeaderCiphertext
    /\ run.proc[1].boxed.ServerHeader.MessageID # run.proc[2].boxed.ServerHeader.MessageID

\* what the call of process p returns when it runs alone from the guard as it
\* was when the two calls began
Alone(p) ==
    LET r == UnboxMessage(run.proc[p].boxed, run.proc[p].convID,
                          [err |-> run.ferr, CanonicalName |-> "", CryptKeys |-> tlfKeys],
                          run.ans, run.lookup, run.before)
    IN  [panic |-> r.panic, msg |-> r.msg, err |-> r.err]

\* C31: in every interleaving of two concurrent UnboxMessage calls whose guard
\* checks are atomic, two calls on one conversation for envelopes with the
\* same body hash and different message ids do not both return a valid
\* record; and a call on a conversation other than the other call's returns
\* what it returns when it runs alone.
ConcurrentUnbox ==
    /\ (ReplayRace =>
            ~(run.proc[1].out.msg.state = "valid" /\ run.proc[2].out.msg.state = "valid"))
    /\ (run.on /\ run.proc[1].convID # run.proc[2].convID =>
            \A p \in Procs : run.proc[p].pc = "done" => run.proc[p].out = Alone(p))

\* the two calls raced for one body hash and interleaved: the first took the
\* body hash and was returned valid after the second had been refused
ConcurrentWitness ==
    /\ ReplayRace
    /\ Len(run.log) >= 3 /\ run.log[1] = 1 /\ run.log[2] = 2 /\ run.log[3] = 1
    /\ run.proc[1].out.msg.state = "valid"
    /\ run.proc[2].out.err.set /\ run.proc[2].out.err.inner = "replayed body hash"

====
